---- MODULE Spec2Model ----
(***************************************************************************)
(* Morph-RT kernel: scheduler, delayed lists, semaphore, mutex, message     *)
(* queue and its ring buffer, with the intrusive lists kept at the level   *)
(* of their next/prev pointers.                                            *)
(***************************************************************************)
EXTENDS Integers, Sequences, FiniteSets, TLC

(***************************************************************************)
(* Program constants and model bounds                                      *)
(***************************************************************************)
MAX_PRIORITY == 7

\* width of the tick counter in the model (uint32_t in the source)
TickBits == 3

\* number of application tasks besides the idle task
NumUserTasks == 2

\* largest finite timeout / delay an application task passes
MaxTimeout == 2

\* largest max_count a semaphore is created with
MaxSemMax == 2

\* kernel calls the application tasks start in one run
MaxCalls == 4

\* tick interrupts taken in one run
MaxTicks == 4

\* the same two budgets for runs that exercise the semaphore
SemCalls == 3

SemTicks == 3

\* application tasks, and the two budgets, of runs that exercise the queue
QueueTasks == 3

QueueCalls == 4

QueueTicks == 2

\* largest queue_length a queue is created with
MaxQueueLen == 2

\* cb_put / cb_get calls in one run of the ring buffer alone
RingCalls == 6

\* largest capacity a ring buffer is initialised with
MaxRingLen == 3

\* distinct item values
NumValues == 2

\* kernel calls and tick interrupts of the run that is followed statement by statement
CritCalls == 2

CritTicks == 2

\* kernel calls and tick interrupts in a run of task_create and task_delete
TaskCalls == 5

\* calls in one run of queue_create and its ring, and the largest queue_length
CreateCalls == 4

MaxCreateLen == 3

\* kernel calls and ticks in one run of the tasks whose mutex_lock times out
BoostCalls == 3

BoostTicks == 6

\* kernel calls and ticks in one run of the tasks that delete a waiter
DeleteCalls == 3

DeleteTicks == 2

TaskTicks == 2

\* pool_alloc / pool_free calls in one run of the pools alone
PoolCalls == 3

\* slots of a pool, counted from 0, whose addresses the application passes to
\* pool_free
MaxFreedSlot == 1

\* config.h
MAX_TASKS == 8

MAX_QUEUES == 4

MAX_SEMAPHORES == 8

MAX_MUTEXES == 4

SMALL_STACK_SIZE == 512

DEFAULT_STACK_SIZE == 1024

LARGE_STACK_SIZE == 2048

MAX_SMALL_STACKS == 4

MAX_DEFAULT_STACKS == 6

MAX_LARGE_STACKS == 2

SMALL_BUFFER_SIZE == 64

DEFAULT_BUFFER_SIZE == 256

LARGE_BUFFER_SIZE == 1024

MAX_SMALL_BUFFERS == 8

MAX_MEDIUM_BUFFERS == 4

MAX_LARGE_BUFFERS == 2

\* pool_type_t
POOL_TCB == 0

POOL_STACK_SMALL == 1

POOL_STACK_DEFAULT == 2

POOL_STACK_LARGE == 3

POOL_QCB == 4

POOL_BUFFER_SMALL == 5

POOL_BUFFER_MEDIUM == 6

POOL_BUFFER_LARGE == 7

POOL_SCB == 8

POOL_MCB == 9

POOL_COUNT == 10

TickMod == 2 ^ TickBits

TickHalf == TickMod \div 2

Ticks == 0 .. (TickMod - 1)

\* SEM_WAIT_FOREVER / MUTEX_WAIT_FOREVER: the all-ones tick value
WAIT_FOREVER == TickMod - 1

NO_WAIT == 0

IdleTask == 0

UserTasks == 1 .. NumUserTasks

QueueUsers == 1 .. QueueTasks

\* the TCB slots in use in some run
Tasks == {IdleTask} \cup UserTasks \cup QueueUsers

Priorities == 0 .. MAX_PRIORITY

\* a NULL pointer to a sync object
NULL == "NULL"

\* a NULL task_handle_t
NoTask == 0 - 1

\* a task_handle_t that container_of computed from a list head: it points at no TCB
BogusTask == 0 - 2

\* a NULL list_head_t pointer
NullNode == <<"NULL", 0>>

(***************************************************************************)
(* list.h: every list_head_t of the kernel is a node with a next and a     *)
(* prev pointer.  Heads and the three links of each TCB are nodes.         *)
(***************************************************************************)
ReadyHead(p) == <<"ready_queues", p>>

delayed_cur == <<"delayed_cur", 0>>

delayed_ovf == <<"delayed_ovf", 0>>

SemHead == <<"sem_waiting_tasks", 0>>

MutexHead == <<"mutex_waiting_tasks", 0>>

SendHead == <<"waiting_senders", 0>>

RecvHead == <<"waiting_receivers", 0>>

ready_link(t) == <<"ready_link", t>>

delay_link(t) == <<"delay_link", t>>

wait_link(t) == <<"wait_link", t>>

HeadNodes == {ReadyHead(p) : p \in Priorities} \cup {delayed_cur, delayed_ovf, SemHead, MutexHead, SendHead, RecvHead}

LinkNodes == {ready_link(t) : t \in Tasks} \cup {delay_link(t) : t \in Tasks} \cup {wait_link(t) : t \in Tasks}

Nodes == HeadNodes \cup LinkNodes

\* container_of: the TCB a link is embedded in; a list head is embedded in none
IsLink(n) == n \in LinkNodes

container_of(n) == n[2]

list_init(L, h) == [L EXCEPT ![h] = [next |-> h, prev |-> h]]

list_is_empty(L, h) == L[h].next = h

list_insert_before(L, n, pos) ==
  LET L1 == [L EXCEPT ![n].next = pos]
      L2 == [L1 EXCEPT ![n].prev = L1[pos].prev]
      L3 == [L2 EXCEPT ![L2[pos].prev].next = n]
  IN  [L3 EXCEPT ![pos].prev = n]

list_insert_tail(L, h, n) ==
  LET L1 == [L EXCEPT ![n].prev = L[h].prev]
      L2 == [L1 EXCEPT ![n].next = h]
      L3 == [L2 EXCEPT ![L2[h].prev].next = n]
  IN  [L3 EXCEPT ![h].prev = n]

list_remove(L, n) ==
  LET L1 == [L EXCEPT ![L[n].next].prev = L[n].prev]
      L2 == [L1 EXCEPT ![L1[n].prev].next = L1[n].next]
  IN  [L2 EXCEPT ![n] = [next |-> n, prev |-> n]]

list_move_to_tail(L, h, n) == list_insert_tail(list_remove(L, n), h, n)

(***************************************************************************)
(* time_utils.h: wrap-safe comparisons by signed difference                *)
(***************************************************************************)
\* (int32_t)(a - b) at the model's tick width
SignedDiff(a, b) ==
  LET d == (a - b) % TickMod
  IN  IF d >= TickHalf THEN d - TickMod ELSE d

time_lte(a, b) == SignedDiff(a, b) <= 0

time_lt(a, b) == SignedDiff(a, b) < 0

time_gt(a, b) == ~time_lte(a, b)

ticks_until(deadline, now) ==
  LET dt == SignedDiff(deadline, now)
  IN  IF dt <= 0 THEN 0 ELSE dt

(***************************************************************************)
(* Program state                                                           *)
(***************************************************************************)
VARIABLES
  links,              \* next/prev of every list_head_t
  state,              \* task_control_block.state
  base_priority,      \* task_control_block.base_priority
  effective_priority, \* task_control_block.effective_priority
  wake_tick,          \* task_control_block.wake_tick
  wake_reason,        \* task_control_block.wake_reason
  waiting_on,         \* task_control_block.waiting_on
  tick_now,           \* scheduler tick counter
  current_task,       \* scheduler.c current_task
  next_task,          \* scheduler.c next_task
  count,              \* semaphore_control_block.count
  max_count,          \* semaphore_control_block.max_count
  owner,              \* mutex_control_block.owner
  original_priority,  \* mutex_control_block.original_priority
  halt,               \* "none", or why the CPU no longer executes kernel code
  kernel_running,     \* kernel.c kernel_running
  sem_live,           \* the semaphore slot is allocated
  mutex_live,         \* the mutex slot is allocated
  pc,                 \* where each task stands in its code
  timeout,            \* local 'timeout' of a task's pending blocking call
  deadline,           \* local 'deadline' of a task's pending blocking call
  now_read,           \* local 'now' of a task's pending sem_wait
  armed_for,          \* ticks of the timeout a task armed in its pending call, 0 if none
  ticks_armed,        \* tick interrupts since a task armed that timeout
  holds,              \* tasks whose mutex_lock returned MUTEX_OK and that have not unlocked since
  cb,                 \* the circular_buffer_t of the queue
  queue_live,         \* the application's queue handle has not been passed to queue_delete
  pool_used,          \* used objects of the QCB pool and of the queue buffer pool
  primask,            \* PRIMASK: 1 while interrupts are masked by a critical section
  stmts,              \* the statements each task has left in the kernel call it executes
  pools,              \* memory.c pools[]: the memory_pool_t of every pool_type_t
  dirty,              \* the pool slots, <<pool, index>>, whose memory is not all zero
  stack_base,         \* task_control_block.stack_base
  handed,             \* the slots pool_alloc returned and no pool_free has taken back
  waitq,              \* tasks blocked on the queue, in the order in which they blocked
  puts,               \* items that cb_put accepted, in order
  gets,               \* items that cb_get returned, in order
  calls_left,         \* kernel calls the application tasks may still start
  ticks_left,         \* tick interrupts that may still be taken
  last                \* the operation that produced the current state and its result

memvars == <<links, state, base_priority, effective_priority, wake_tick, wake_reason,
             waiting_on, tick_now, current_task, next_task, count, max_count, owner,
             original_priority, halt>>

vars == <<links, state, base_priority, effective_priority, wake_tick, wake_reason,
          waiting_on, tick_now, current_task, next_task, count, max_count, owner,
          original_priority, halt, kernel_running, sem_live, mutex_live, pc, timeout,
          deadline, now_read, armed_for, ticks_armed, holds, cb, queue_live, pool_used, primask, stmts,
          pools, dirty, handed, stack_base, waitq, puts, gets, calls_left, ticks_left, last>>

pvars == <<pools, dirty, handed, stack_base>>

cvars == <<primask, stmts>>

qvars == <<cb, queue_live, pool_used, pvars, cvars, waitq, puts, gets>>

\* the kernel's memory as one value, so that C functions compose as operators
Mem ==
  [links |-> links, state |-> state, base_priority |-> base_priority,
   effective_priority |-> effective_priority, wake_tick |-> wake_tick,
   wake_reason |-> wake_reason, waiting_on |-> waiting_on, tick_now |-> tick_now,
   current_task |-> current_task, next_task |-> next_task, count |-> count,
   max_count |-> max_count, owner |-> owner, original_priority |-> original_priority,
   halt |-> halt]

Store(m) ==
  /\ links' = m.links
  /\ state' = m.state
  /\ base_priority' = m.base_priority
  /\ effective_priority' = m.effective_priority
  /\ wake_tick' = m.wake_tick
  /\ wake_reason' = m.wake_reason
  /\ waiting_on' = m.waiting_on
  /\ tick_now' = m.tick_now
  /\ current_task' = m.current_task
  /\ next_task' = m.next_task
  /\ count' = m.count
  /\ max_count' = m.max_count
  /\ owner' = m.owner
  /\ original_priority' = m.original_priority
  /\ halt' = m.halt

\* an endless loop inside the kernel
Hang(m) == [m EXCEPT !.halt = "hang"]

\* the while (1) {} that ends scheduler_get_next_task when no task is ready
NoReadyTask(m) == [m EXCEPT !.halt = "no ready task"]

\* a store through a TCB pointer that container_of computed from a list head
Fault(m) == [m EXCEPT !.halt = "fault"]

\* what a read of wake_tick or effective_priority through such a pointer may
\* return
Garbage == Ticks

(***************************************************************************)
(* scheduler.c                                                             *)
(***************************************************************************)
RECURSIVE InsertScan(_, _, _, _, _, _)
\* the list_iter loop of delayed_insert_sorted: the node to insert before,
\* the list head when the scan reaches the end, or NullNode when it never ends
InsertScan(m, list, t, pos, seen, gar) ==
  IF pos = list THEN list
  ELSE IF pos \in seen THEN NullNode
  ELSE LET qwake == IF IsLink(pos) THEN m.wake_tick[container_of(pos)] ELSE gar
       IN  IF time_lte(m.wake_tick[t], qwake) THEN pos
           ELSE InsertScan(m, list, t, m.links[pos].next, seen \cup {pos}, gar)

delayed_insert_sorted(m, list, t, gar) ==
  LET pos == InsertScan(m, list, t, m.links[list].next, {}, gar)
  IN  IF pos = NullNode THEN Hang(m)
      ELSE IF pos = list THEN [m EXCEPT !.links = list_insert_tail(@, list, delay_link(t))]
      ELSE [m EXCEPT !.links = list_insert_before(@, delay_link(t), pos)]

RECURSIVE FirstReady(_, _)
\* the for loop of scheduler_get_next_task: first non-empty band, or MAX_PRIORITY + 1
FirstReady(L, p) ==
  IF p > MAX_PRIORITY THEN p
  ELSE IF ~list_is_empty(L, ReadyHead(p)) THEN p
  ELSE FirstReady(L, p + 1)

\* scheduler_get_next_task without list_move_to_tail
scheduler_get_next_task_unrotated(m) ==
  LET p == FirstReady(m.links, 0)
  IN  IF p > MAX_PRIORITY THEN [m |-> NoReadyTask(m), task |-> NoTask]
      ELSE LET first == m.links[ReadyHead(p)].next
           IN  [m |-> m, task |-> IF IsLink(first) THEN container_of(first) ELSE BogusTask]

\* returns the memory after the call and the task returned
scheduler_get_next_task(m) ==
  LET p == FirstReady(m.links, 0)
  IN  IF p > MAX_PRIORITY THEN [m |-> NoReadyTask(m), task |-> NoTask]
      ELSE LET first == m.links[ReadyHead(p)].next
           IN  [m |-> [m EXCEPT !.links = list_move_to_tail(@, ReadyHead(p), first)],
                task |-> IF IsLink(first) THEN container_of(first) ELSE BogusTask]

scheduler_add_task(m, t) ==
  [m EXCEPT !.state[t] = "READY",
            !.links = list_insert_tail(@, ReadyHead(m.effective_priority[t]), ready_link(t))]

scheduler_remove_task(m, t) ==
  LET L1 == IF ~list_is_empty(m.links, ready_link(t)) THEN list_remove(m.links, ready_link(t))
            ELSE m.links
      L2 == IF ~list_is_empty(L1, delay_link(t)) THEN list_remove(L1, delay_link(t)) ELSE L1
  IN  [m EXCEPT !.links = L2]

\* context_switch.s PendSV_Handler: current_task = next_task, no TCB state is written
PendSV_Handler(m) ==
  IF m.next_task = BogusTask THEN Fault(m)
  ELSE [m EXCEPT !.current_task = m.next_task]

scheduler_yield(m) ==
  LET r == scheduler_get_next_task(m)
  IN  IF r.m.halt # "none" THEN r.m
      ELSE LET m1 == [r.m EXCEPT !.next_task = r.task]
           IN  IF r.task # m1.current_task THEN PendSV_Handler(m1) ELSE m1

scheduler_start(m) ==
  LET r == scheduler_get_next_task(m)
  IN  IF r.m.halt # "none" THEN r.m
      ELSE IF r.task = BogusTask THEN Fault(r.m)
      ELSE [r.m EXCEPT !.current_task = r.task, !.state[r.task] = "RUNNING"]

scheduler_expire_timeout(m, t) ==
  LET m1 == IF m.waiting_on[t] # NULL
            THEN [m EXCEPT !.links = IF @[wait_link(t)].next # wait_link(t)
                                      THEN list_remove(@, wait_link(t)) ELSE @,
                           !.wake_reason[t] = "TIMEOUT",
                           !.waiting_on[t] = NULL]
            ELSE m
  IN  scheduler_add_task(m1, t)

scheduler_set_timeout(m, t, wake, gar) ==
  LET now == m.tick_now
      m1 == [m EXCEPT !.wake_tick[t] = wake]
      L == IF time_lt(wake, now) THEN delayed_ovf ELSE delayed_cur
  IN  delayed_insert_sorted(m1, L, t, gar)

scheduler_cancel_timeout(m, t) ==
  IF ~list_is_empty(m.links, delay_link(t))
  THEN [m EXCEPT !.links = list_remove(@, delay_link(t))]
  ELSE m

\* scheduler_delay_current_task up to its call of scheduler_yield
scheduler_delay_current_task(m, ticks, gar) ==
  LET t == m.current_task
      m1 == IF ~list_is_empty(m.links, ready_link(t))
            THEN [m EXCEPT !.links = list_remove(@, ready_link(t))] ELSE m
      m2 == [m1 EXCEPT !.state[t] = "BLOCKED"]
      now == m2.tick_now
      wake == (now + ticks) % TickMod
      m3 == [m2 EXCEPT !.wake_tick[t] = wake]
      L == IF time_lt(wake, now) THEN delayed_ovf ELSE delayed_cur
  IN  delayed_insert_sorted(m3, L, t, gar)

RECURSIVE DrainDelayed(_, _, _, _)
\* the while loop of scheduler_tick over delayed_cur
DrainDelayed(m, now, gar, seen) ==
  IF list_is_empty(m.links, delayed_cur) THEN m
  ELSE LET pos == m.links[delayed_cur].next
       IN  IF ~IsLink(pos)
           THEN IF time_gt(gar, now) THEN m
                ELSE Fault([m EXCEPT !.links = list_remove(@, pos)])
           ELSE LET t == container_of(pos)
                IN  IF time_gt(m.wake_tick[t], now) THEN m
                    ELSE LET m1 == scheduler_expire_timeout(
                                     [m EXCEPT !.links = list_remove(@, pos)], t)
                         IN  IF m1 \in seen THEN Hang(m1)
                             ELSE DrainDelayed(m1, now, gar, seen \cup {m1})

\* list_head_t tmp = delayed_cur; delayed_cur = delayed_ovf; delayed_ovf = tmp;
\* the two head structs are copied by value, no node is relinked
SwapDelayedHeads(L) ==
  [L EXCEPT ![delayed_cur] = L[delayed_ovf], ![delayed_ovf] = L[delayed_cur]]

scheduler_tick(m, gar) ==
  LET now == m.tick_now
      m1 == [m EXCEPT !.tick_now = (now + 1) % TickMod]
      m2 == DrainDelayed(m1, now, gar, {})
  IN  IF m2.halt # "none" \/ now # 0 THEN m2
      ELSE DrainDelayed([m2 EXCEPT !.links = SwapDelayedHeads(@)], now, gar, {})

\* context_switch.s SysTick_Handler
SysTick_Handler(m, gar) ==
  LET m1 == scheduler_tick(m, gar)
  IN  IF m1.halt # "none" THEN m1
      ELSE LET r == scheduler_get_next_task(m1)
           IN  IF r.m.halt # "none" THEN r.m
               ELSE IF r.task = r.m.current_task THEN r.m
               ELSE PendSV_Handler([r.m EXCEPT !.next_task = r.task])

scheduler_boost_priority(m, t, new_priority) ==
  IF new_priority >= m.effective_priority[t] THEN m
  ELSE LET L1 == IF m.state[t] = "READY" /\ ~list_is_empty(m.links, ready_link(t))
                 THEN list_remove(m.links, ready_link(t)) ELSE m.links
           L2 == IF m.state[t] = "READY"
                 THEN list_insert_tail(L1, ReadyHead(new_priority), ready_link(t)) ELSE L1
       IN  [m EXCEPT !.links = L2, !.effective_priority[t] = new_priority]

scheduler_restore_priority(m, t) ==
  IF m.effective_priority[t] = m.base_priority[t] THEN m
  ELSE LET L1 == IF m.state[t] = "READY" /\ ~list_is_empty(m.links, ready_link(t))
                 THEN list_remove(m.links, ready_link(t)) ELSE m.links
           L2 == IF m.state[t] = "READY"
                 THEN list_insert_tail(L1, ReadyHead(m.base_priority[t]), ready_link(t)) ELSE L1
       IN  [m EXCEPT !.links = L2, !.effective_priority[t] = m.base_priority[t]]

(***************************************************************************)
(* semaphore.c                                                             *)
(***************************************************************************)
\* sem_waitlist_pop, mutex_waitlist_pop: memory after the call and the task popped
waitlist_pop(m, waitlist) ==
  IF list_is_empty(m.links, waitlist) THEN [m |-> m, task |-> NoTask]
  ELSE LET node == m.links[waitlist].next
       IN  [m |-> [m EXCEPT !.links = list_remove(@, node)],
            task |-> IF IsLink(node) THEN container_of(node) ELSE BogusTask]

waitlist_push(m, waitlist, t) ==
  [m EXCEPT !.links = list_insert_tail(@, waitlist, wait_link(t))]

\* the body shared by sem_wait_one_waiter, mutex_wake_one_waiter and the delete loops
WakeWaiter(m, waitlist, reason) ==
  LET r == waitlist_pop(m, waitlist)
  IN  IF r.task = NoTask THEN m
      ELSE IF r.task = BogusTask THEN Fault(r.m)
      ELSE scheduler_add_task(
             scheduler_cancel_timeout(
               [r.m EXCEPT !.waiting_on[r.task] = NULL, !.wake_reason[r.task] = reason],
               r.task),
             r.task)

sem_wait_one_waiter(m) == WakeWaiter(m, SemHead, "DATA_AVAILABLE")

RECURSIVE WakeAll(_, _, _, _)
\* while (!list_is_empty(waitlist)) { pop; wake with reason }
WakeAll(m, waitlist, reason, seen) ==
  IF m.halt # "none" \/ list_is_empty(m.links, waitlist) THEN m
  ELSE LET m1 == WakeWaiter(m, waitlist, reason)
       IN  IF m1 \in seen THEN Hang(m1)
           ELSE WakeAll(m1, waitlist, reason, seen \cup {m1})

sem_delete(m) == WakeAll(m, SemHead, "SIGNAL", {})

\* one pass of the for (;;) loop of sem_wait up to scheduler_yield;
\* ret = "BLOCK" when the pass ends at scheduler_yield
sem_wait_pass(m, to, dl, gar) ==
  LET t == m.current_task
      now == m.tick_now
      remaining == ticks_until(dl, now)
  IN  IF m.count > 0 THEN [m |-> [m EXCEPT !.count = @ - 1], ret |-> "SEM_OK", now |-> now]
      ELSE IF to = NO_WAIT THEN [m |-> m, ret |-> "SEM_ERROR_TIMEOUT", now |-> now]
      ELSE IF remaining = 0 THEN [m |-> m, ret |-> "SEM_ERROR_TIMEOUT", now |-> now]
      ELSE LET m1 == waitlist_push([m EXCEPT !.waiting_on[t] = "sem"], SemHead, t)
               m2 == IF to # WAIT_FOREVER
                     THEN scheduler_set_timeout(m1, t, (now + remaining) % TickMod, gar)
                     ELSE m1
           IN  [m |-> [m2 EXCEPT !.state[t] = "BLOCKED"], ret |-> "BLOCK", now |-> now]

\* sem_wait after scheduler_yield returned: the result, or "RETRY" with the new timeout
sem_wait_resume(m, to, dl, now) ==
  LET t == m.current_task
      to1 == IF to # WAIT_FOREVER THEN ticks_until(dl, now) ELSE to
  IN  IF m.wake_reason[t] = "TIMEOUT" THEN [ret |-> "SEM_ERROR_TIMEOUT", timeout |-> to]
      ELSE IF m.wake_reason[t] = "SIGNAL" THEN [ret |-> "SEM_ERROR_NULL", timeout |-> to]
      ELSE IF to # WAIT_FOREVER /\ to1 = 0 THEN [ret |-> "SEM_ERROR_TIMEOUT", timeout |-> to1]
      ELSE [ret |-> "RETRY", timeout |-> to1]

\* sem_post without the count < max_count test
sem_post_unbounded(m) ==
  IF ~list_is_empty(m.links, SemHead) THEN [m |-> sem_wait_one_waiter(m), ret |-> "SEM_OK"]
  ELSE [m |-> [m EXCEPT !.count = @ + 1], ret |-> "SEM_OK"]

sem_post(m) ==
  IF ~list_is_empty(m.links, SemHead) THEN [m |-> sem_wait_one_waiter(m), ret |-> "SEM_OK"]
  ELSE IF m.count < m.max_count THEN [m |-> [m EXCEPT !.count = @ + 1], ret |-> "SEM_OK"]
  ELSE [m |-> m, ret |-> "SEM_ERROR_OVERFLOW"]

(***************************************************************************)
(* mutex.c                                                                 *)
(***************************************************************************)
mutex_wake_one_waiter(m) == WakeWaiter(m, MutexHead, "DATA_AVAILABLE")

RECURSIVE HighestWaiter(_, _, _, _, _)
\* the list_iter loop of mutex_apply_priority_inheritance: the lowest
\* effective_priority number met, or MAX_PRIORITY + 1 when the loop never ends;
\* a node that is no wait_link yields whatever lies where its TCB would be
HighestWaiter(m, pos, highest, seen, gar) ==
  IF pos = MutexHead THEN highest
  ELSE IF pos \in seen THEN MAX_PRIORITY + 1
  ELSE LET p == IF IsLink(pos) THEN m.effective_priority[container_of(pos)]
                ELSE gar % (MAX_PRIORITY + 1)
       IN  HighestWaiter(m, m.links[pos].next, IF p < highest THEN p ELSE highest,
                         seen \cup {pos}, gar)

\* mutex_apply_priority_inheritance with the boost test the wrong way round
mutex_apply_priority_inheritance_inverted(m, gar) ==
  IF m.owner = NoTask \/ list_is_empty(m.links, MutexHead) THEN m
  ELSE LET highest_priority == HighestWaiter(m, m.links[MutexHead].next, MAX_PRIORITY, {}, gar)
       IN  IF highest_priority > MAX_PRIORITY THEN Hang(m)
           ELSE IF highest_priority > m.effective_priority[m.owner]
           THEN scheduler_boost_priority(
                  [m EXCEPT !.original_priority =
                              IF @ = MAX_PRIORITY THEN m.base_priority[m.owner] ELSE @],
                  m.owner, highest_priority)
           ELSE m

mutex_apply_priority_inheritance(m, gar) ==
  IF m.owner = NoTask \/ list_is_empty(m.links, MutexHead) THEN m
  ELSE LET highest_priority == HighestWaiter(m, m.links[MutexHead].next, MAX_PRIORITY, {}, gar)
       IN  IF highest_priority > MAX_PRIORITY THEN Hang(m)
           ELSE IF highest_priority < m.effective_priority[m.owner]
           THEN scheduler_boost_priority(
                  [m EXCEPT !.original_priority =
                              IF @ = MAX_PRIORITY THEN m.base_priority[m.owner] ELSE @],
                  m.owner, highest_priority)
           ELSE m

mutex_restore_priority(m) ==
  IF m.owner = NoTask \/ m.original_priority = MAX_PRIORITY THEN m
  ELSE [scheduler_boost_priority(m, m.owner, m.original_priority)
          EXCEPT !.original_priority = MAX_PRIORITY]

mutex_delete(m) ==
  LET m1 == IF m.owner # NoTask THEN mutex_restore_priority(m) ELSE m
  IN  WakeAll(m1, MutexHead, "SIGNAL", {})

\* mutex_lock without the test of owner
mutex_lock_pass_unowned(m, to, dl, gar) ==
  [m |-> [m EXCEPT !.owner = m.current_task], ret |-> "MUTEX_OK"]

\* one pass of the for (;;) loop of mutex_lock up to scheduler_yield
mutex_lock_pass(m, to, dl, gar) ==
  LET t == m.current_task
      now == m.tick_now
      remaining == ticks_until(dl, now)
  IN  IF m.owner = NoTask THEN [m |-> [m EXCEPT !.owner = t], ret |-> "MUTEX_OK"]
      ELSE IF m.owner = t THEN [m |-> m, ret |-> "MUTEX_ERROR_RECURSIVE"]
      ELSE IF to = NO_WAIT THEN [m |-> m, ret |-> "MUTEX_ERROR_TIMEOUT"]
      ELSE IF remaining = 0 THEN [m |-> m, ret |-> "MUTEX_ERROR_TIMEOUT"]
      ELSE LET m1 == waitlist_push([m EXCEPT !.waiting_on[t] = "mutex"], MutexHead, t)
               m2 == mutex_apply_priority_inheritance(m1, gar)
               m3 == IF m2.halt = "none" /\ to # WAIT_FOREVER
                     THEN scheduler_set_timeout(m2, t, (now + remaining) % TickMod, gar)
                     ELSE m2
           IN  [m |-> IF m3.halt = "none" THEN [m3 EXCEPT !.state[t] = "BLOCKED"] ELSE m3,
                ret |-> "BLOCK"]

\* mutex_lock after scheduler_yield returned
mutex_lock_resume(m, to, dl) ==
  LET t == m.current_task
      to1 == IF to # WAIT_FOREVER THEN ticks_until(dl, m.tick_now) ELSE to
  IN  IF m.wake_reason[t] = "TIMEOUT" THEN [ret |-> "MUTEX_ERROR_TIMEOUT", timeout |-> to]
      ELSE IF m.wake_reason[t] = "SIGNAL" THEN [ret |-> "MUTEX_ERROR_NULL", timeout |-> to]
      ELSE IF to # WAIT_FOREVER /\ to1 = 0 THEN [ret |-> "MUTEX_ERROR_TIMEOUT", timeout |-> to1]
      ELSE [ret |-> "RETRY", timeout |-> to1]

\* mutex_unlock without the test of owner
mutex_unlock_any_task(m) ==
  LET m1 == [mutex_restore_priority(m) EXCEPT !.owner = NoTask]
  IN  [m |-> IF ~list_is_empty(m1.links, MutexHead) THEN mutex_wake_one_waiter(m1) ELSE m1,
       ret |-> "MUTEX_OK"]

mutex_unlock(m) ==
  IF m.owner # m.current_task THEN [m |-> m, ret |-> "MUTEX_ERROR_NOT_OWNER"]
  ELSE LET m1 == [mutex_restore_priority(m) EXCEPT !.owner = NoTask]
       IN  [m |-> IF ~list_is_empty(m1.links, MutexHead) THEN mutex_wake_one_waiter(m1) ELSE m1,
            ret |-> "MUTEX_OK"]

(***************************************************************************)
(* circular_buffer.h, queue.c                                              *)
(***************************************************************************)
Values == 1 .. NumValues

\* what a slot of a freshly allocated buffer holds, and a data_out nothing was copied to
NoItem == 0

RECURSIVE BitAnd(_, _)
\* a & b on naturals
BitAnd(a, b) ==
  IF a = 0 \/ b = 0 THEN 0
  ELSE 2 * BitAnd(a \div 2, b \div 2) + (IF a % 2 = 1 /\ b % 2 = 1 THEN 1 ELSE 0)

RECURSIVE RoundUp(_, _)
\* while (capacity < wanted) capacity <<= 1;
RoundUp(capacity, wanted) ==
  IF capacity < wanted THEN RoundUp(2 * capacity, wanted) ELSE capacity

\* cb_init on a zeroed buffer; the power-of-two test of cb_init picks the
\* value that the loop computes as well
cb_init(capacity) ==
  LET new_capacity == IF BitAnd(capacity, capacity - 1) = 0 THEN capacity
                      ELSE RoundUp(1, capacity)
  IN  [capacity |-> new_capacity, mask |-> new_capacity - 1, size |-> 0, head |-> 0,
       tail |-> 0, buffer |-> [i \in 0 .. (new_capacity - 1) |-> NoItem], has_buffer |-> TRUE]

\* cb_put without the test of cb_is_full
cb_put_unchecked(self, data) ==
  [cb |-> [self EXCEPT !.buffer[self.tail] = data,
                       !.tail = BitAnd(self.tail + 1, self.mask),
                       !.size = @ + 1],
   ret |-> "CB_SUCCESS"]

cb_put(self, data) ==
  IF self.size = self.capacity THEN [cb |-> self, ret |-> "CB_ERROR_BUFFER_FULL"]
  ELSE [cb |-> [self EXCEPT !.buffer[self.tail] = data,
                            !.tail = BitAnd(self.tail + 1, self.mask),
                            !.size = @ + 1],
        ret |-> "CB_SUCCESS"]

cb_get(self) ==
  IF self.size = 0 THEN [cb |-> self, ret |-> "CB_ERROR_BUFFER_EMPTY", data |-> NoItem]
  ELSE [cb |-> [self EXCEPT !.head = BitAnd(self.head + 1, self.mask), !.size = @ - 1],
        ret |-> "CB_SUCCESS", data |-> self.buffer[self.head]]

\* cb_free: free(self->buffer); self->buffer = NULL; self->size = 0
cb_free(self) == [self EXCEPT !.has_buffer = FALSE, !.size = 0]

\* the circular_buffer_t of the QCB that queue_create returns
queue_create(queue_length) ==
  LET capacity == RoundUp(1, queue_length)
  IN  [capacity |-> capacity, mask |-> capacity - 1, size |-> 0, head |-> 0, tail |-> 0,
       buffer |-> [i \in 0 .. (capacity - 1) |-> NoItem], has_buffer |-> TRUE]

wake_one(m, L) == WakeWaiter(m, L, "DATA_AVAILABLE")

\* queue_send / queue_receive without the test of timeout == 0
queue_block_untested(m, q, mine, none, to, dl, gar) ==
  LET t == m.current_task
      now == m.tick_now
      remain == ticks_until(dl, now)
  IN  IF remain = 0 THEN [m |-> m, cb |-> q, ret |-> "QUEUE_ERROR_TIMEOUT", data |-> NoItem]
      ELSE LET m1 == waitlist_push([m EXCEPT !.waiting_on[t] = "queue"], mine, t)
               m2 == scheduler_set_timeout(m1, t, (now + remain) % TickMod, gar)
           IN  [m |-> IF m2.halt = "none" THEN [m2 EXCEPT !.state[t] = "BLOCKED"] ELSE m2,
                cb |-> q, ret |-> "BLOCK", data |-> NoItem]

\* the end of a pass of queue_send / queue_receive that found the queue full /
\* empty: Full or Empty, Timeout, or block on the wait-list 'mine'
queue_block(m, q, mine, none, to, dl, gar) ==
  LET t == m.current_task
      now == m.tick_now
      remain == ticks_until(dl, now)
  IN  IF to = NO_WAIT THEN [m |-> m, cb |-> q, ret |-> none, data |-> NoItem]
      ELSE IF remain = 0 THEN [m |-> m, cb |-> q, ret |-> "QUEUE_ERROR_TIMEOUT", data |-> NoItem]
      ELSE LET m1 == waitlist_push([m EXCEPT !.waiting_on[t] = "queue"], mine, t)
               m2 == scheduler_set_timeout(m1, t, (now + remain) % TickMod, gar)
           IN  [m |-> IF m2.halt = "none" THEN [m2 EXCEPT !.state[t] = "BLOCKED"] ELSE m2,
                cb |-> q, ret |-> "BLOCK", data |-> NoItem]

\* one pass of the for (;;) loop of queue_send up to scheduler_yield
queue_send_pass(m, q, item, to, dl, gar) ==
  IF q.size # q.capacity
  THEN IF ~q.has_buffer THEN [m |-> Fault(m), cb |-> q, ret |-> "NONE", data |-> NoItem]
       ELSE LET r == cb_put(q, item)
            IN  IF r.ret # "CB_SUCCESS"
                THEN [m |-> m, cb |-> r.cb, ret |-> "QUEUE_ERROR_FULL", data |-> NoItem]
                ELSE [m |-> IF ~list_is_empty(m.links, RecvHead) THEN wake_one(m, RecvHead)
                            ELSE m,
                      cb |-> r.cb, ret |-> "QUEUE_SUCCESS", data |-> item]
  ELSE queue_block(m, q, SendHead, "QUEUE_ERROR_FULL", to, dl, gar)

\* one pass of the for (;;) loop of queue_receive up to scheduler_yield
queue_receive_pass(m, q, to, dl, gar) ==
  IF q.size # 0
  THEN LET r == cb_get(q)
       IN  IF r.ret # "CB_SUCCESS"
           THEN [m |-> m, cb |-> r.cb, ret |-> "QUEUE_ERROR_EMPTY", data |-> NoItem]
           ELSE [m |-> IF ~list_is_empty(m.links, SendHead) THEN wake_one(m, SendHead) ELSE m,
                 cb |-> r.cb, ret |-> "QUEUE_SUCCESS", data |-> r.data]
  ELSE queue_block(m, q, RecvHead, "QUEUE_ERROR_EMPTY", to, dl, gar)

\* queue_send / queue_receive after scheduler_yield returned
queue_resume(m, dl) ==
  LET to1 == ticks_until(dl, m.tick_now)
  IN  IF m.wake_reason[m.current_task] = "TIMEOUT" \/ to1 = 0
      THEN [ret |-> "QUEUE_ERROR_TIMEOUT", timeout |-> to1]
      ELSE [ret |-> "RETRY", timeout |-> to1]

\* queue_delete: cb_free and free() of the QCB; both pointers came from the
\* pools, not from malloc, so free() may end the program (crash) or return
queue_delete(m, q, crash) ==
  [m |-> IF crash THEN Fault(m) ELSE m, cb |-> cb_free(q)]

(***************************************************************************)
(* memory.c                                                                *)
(***************************************************************************)
\* a pointer into a pool's array: the pool and the byte offset from its start;
\* any other address compares as outside every pool
NullPtr == [pool |-> 0 - 1, off |-> 0]

PoolTypes == 0 .. (POOL_COUNT - 1)

\* a uint32_t bitmap is the set of the positions, 0 .. 31, of its set bits
BitPositions == 0 .. 31

pool_init(object_size, max_objects) ==
  [object_size |-> object_size, pool_size |-> object_size * max_objects,
   free_bitmap |-> {i \in BitPositions : i < max_objects}, free_count |-> max_objects,
   peak_usage |-> 0]

RECURSIVE FindFrom(_, _)
\* the for loop of find_free_bit
FindFrom(bitmap, i) ==
  IF i >= 32 THEN 0 - 1
  ELSE IF i \in bitmap THEN i
  ELSE FindFrom(bitmap, i + 1)

\* find_free_bit with the loop running from bit 31 down
find_free_bit_from_top(bitmap) ==
  IF bitmap = {} THEN 0 - 1 ELSE CHOOSE i \in bitmap : \A j \in bitmap : j <= i

find_free_bit(bitmap) == IF bitmap = {} THEN 0 - 1 ELSE FindFrom(bitmap, 0)

get_object_ptr(P, pool_type, index) ==
  [pool |-> pool_type, off |-> index * P[pool_type].object_size]

get_object_index(P, pool_type, ptr) ==
  IF ptr = NullPtr \/ ptr.pool # pool_type \/ ptr.off < 0 THEN 0 - 1
  ELSE IF ptr.off >= P[pool_type].pool_size THEN 0 - 1
  ELSE ptr.off \div P[pool_type].object_size

\* the pools and the slot memory after the call, and the pointer returned
pool_alloc(P, D, pool_type) ==
  IF pool_type >= POOL_COUNT THEN [pools |-> P, dirty |-> D, ptr |-> NullPtr]
  ELSE LET pool == P[pool_type]
           free_index == find_free_bit(pool.free_bitmap)
       IN  IF pool.free_count = 0 \/ free_index < 0
           THEN [pools |-> P, dirty |-> D, ptr |-> NullPtr]
           ELSE LET free_count == pool.free_count - 1
                    used == (pool.pool_size \div pool.object_size) - free_count
                IN  [pools |-> [P EXCEPT ![pool_type] =
                                  [pool EXCEPT !.free_bitmap = @ \ {free_index},
                                               !.free_count = free_count,
                                               !.peak_usage = IF used > @ THEN used ELSE @]],
                     dirty |-> D \ {<<pool_type, free_index>>},
                     ptr |-> get_object_ptr(P, pool_type, free_index)]

\* pool_free without the test of the slot's bit
pool_free_unchecked(P, pool_type, ptr) ==
  IF pool_type >= POOL_COUNT \/ ptr = NullPtr THEN [pools |-> P, ret |-> FALSE]
  ELSE LET index == get_object_index(P, pool_type, ptr)
       IN  IF index < 0 THEN [pools |-> P, ret |-> FALSE]
           ELSE [pools |-> [P EXCEPT ![pool_type].free_bitmap = @ \cup {index},
                                     ![pool_type].free_count = @ + 1],
                 ret |-> TRUE]

\* the pools after the call and the result
pool_free(P, pool_type, ptr) ==
  IF pool_type >= POOL_COUNT \/ ptr = NullPtr THEN [pools |-> P, ret |-> FALSE]
  ELSE LET index == get_object_index(P, pool_type, ptr)
       IN  IF index < 0 THEN [pools |-> P, ret |-> FALSE]
           ELSE IF index \in P[pool_type].free_bitmap THEN [pools |-> P, ret |-> FALSE]
           ELSE [pools |-> [P EXCEPT ![pool_type].free_bitmap = @ \cup {index},
                                     ![pool_type].free_count = @ + 1],
                 ret |-> TRUE]

pool_get_stats(P, pool_type) ==
  IF pool_type >= POOL_COUNT
  THEN [total_objects |-> 0, free_objects |-> 0, used_objects |-> 0, peak_usage |-> 0]
  ELSE LET total_objects == P[pool_type].pool_size \div P[pool_type].object_size
       IN  [total_objects |-> total_objects,
            free_objects |-> P[pool_type].free_count,
            used_objects |-> total_objects - P[pool_type].free_count,
            peak_usage |-> P[pool_type].peak_usage]

task_pool_alloc_tcb(P, D) == pool_alloc(P, D, POOL_TCB)

\* task_pool_alloc_stack with < for <=
task_pool_alloc_stack_below(P, D, requested_size) ==
  IF requested_size < SMALL_STACK_SIZE THEN pool_alloc(P, D, POOL_STACK_SMALL)
  ELSE IF requested_size < DEFAULT_STACK_SIZE THEN pool_alloc(P, D, POOL_STACK_DEFAULT)
  ELSE IF requested_size < LARGE_STACK_SIZE THEN pool_alloc(P, D, POOL_STACK_LARGE)
  ELSE [pools |-> P, dirty |-> D, ptr |-> NullPtr]

task_pool_alloc_stack(P, D, requested_size) ==
  IF requested_size <= SMALL_STACK_SIZE THEN pool_alloc(P, D, POOL_STACK_SMALL)
  ELSE IF requested_size <= DEFAULT_STACK_SIZE THEN pool_alloc(P, D, POOL_STACK_DEFAULT)
  ELSE IF requested_size <= LARGE_STACK_SIZE THEN pool_alloc(P, D, POOL_STACK_LARGE)
  ELSE [pools |-> P, dirty |-> D, ptr |-> NullPtr]

task_pool_free_tcb(P, tcb) == pool_free(P, POOL_TCB, tcb)

RECURSIVE FreeFirst(_, _, _)
\* pool_free in each pool of the sequence 'types' until one call succeeds
FreeFirst(P, types, ptr) ==
  IF types = <<>> THEN [pools |-> P, ret |-> FALSE]
  ELSE LET r == pool_free(P, Head(types), ptr)
       IN  IF r.ret THEN r ELSE FreeFirst(r.pools, Tail(types), ptr)

task_pool_free_stack(P, stack) ==
  FreeFirst(P, <<POOL_STACK_SMALL, POOL_STACK_DEFAULT, POOL_STACK_LARGE>>, stack)

queue_pool_alloc_qcb(P, D) == pool_alloc(P, D, POOL_QCB)

queue_pool_alloc_buffer(P, D, requested_size) ==
  IF requested_size <= SMALL_BUFFER_SIZE THEN pool_alloc(P, D, POOL_BUFFER_SMALL)
  ELSE IF requested_size <= DEFAULT_BUFFER_SIZE THEN pool_alloc(P, D, POOL_BUFFER_MEDIUM)
  ELSE IF requested_size <= LARGE_BUFFER_SIZE THEN pool_alloc(P, D, POOL_BUFFER_LARGE)
  ELSE [pools |-> P, dirty |-> D, ptr |-> NullPtr]

queue_pool_free_buffer(P, buffer) ==
  FreeFirst(P, <<POOL_BUFFER_SMALL, POOL_BUFFER_MEDIUM, POOL_BUFFER_LARGE>>, buffer)

sem_pool_free_scb(P, sem) == pool_free(P, POOL_SCB, sem)

mutex_pool_free_mcb(P, mutex) == pool_free(P, POOL_MCB, mutex)

\* sizeof of the four control block types, in bytes
ControlBlockSize == 64

\* memory_pools_init; max_tasks is the length of tcb_pool
memory_pools_init(max_tasks) ==
  [t \in PoolTypes |->
     CASE t = POOL_TCB -> pool_init(ControlBlockSize, max_tasks)
       [] t = POOL_STACK_SMALL -> pool_init(SMALL_STACK_SIZE, MAX_SMALL_STACKS)
       [] t = POOL_STACK_DEFAULT -> pool_init(DEFAULT_STACK_SIZE, MAX_DEFAULT_STACKS)
       [] t = POOL_STACK_LARGE -> pool_init(LARGE_STACK_SIZE, MAX_LARGE_STACKS)
       [] t = POOL_QCB -> pool_init(ControlBlockSize, MAX_QUEUES)
       [] t = POOL_BUFFER_SMALL -> pool_init(SMALL_BUFFER_SIZE, MAX_SMALL_BUFFERS)
       [] t = POOL_BUFFER_MEDIUM -> pool_init(DEFAULT_BUFFER_SIZE, MAX_MEDIUM_BUFFERS)
       [] t = POOL_BUFFER_LARGE -> pool_init(LARGE_BUFFER_SIZE, MAX_LARGE_BUFFERS)
       [] t = POOL_SCB -> pool_init(ControlBlockSize, MAX_SEMAPHORES)
       [] OTHER -> pool_init(ControlBlockSize, MAX_MUTEXES)]

\* the slot a pointer that pool_alloc returned stands for
SlotOf(P, ptr) == <<ptr.pool, ptr.off \div P[ptr.pool].object_size>>

RECURSIVE AllocSeq(_, _, _)
\* one successful pool_alloc from each pool of the sequence 'types', the slots
\* handed out being collected in H
AllocSeq(P, H, types) ==
  IF types = <<>> THEN [pools |-> P, handed |-> H]
  ELSE LET r == pool_alloc(P, {}, Head(types))
       IN  AllocSeq(r.pools, H \cup {SlotOf(P, r.ptr)}, Tail(types))

\* the pools after kernel_init (idle task: TCB and small stack) and after the
\* application created n tasks with the default stack size, a semaphore, a
\* mutex and a queue with a small buffer
BootPools(n) ==
  AllocSeq(memory_pools_init(Cardinality(Tasks)), {},
           <<POOL_TCB, POOL_STACK_SMALL>>
             \o [i \in 1 .. (2 * n) |-> IF i % 2 = 1 THEN POOL_TCB ELSE POOL_STACK_DEFAULT]
             \o <<POOL_SCB, POOL_MCB, POOL_QCB, POOL_BUFFER_SMALL>>)

(***************************************************************************)
(* task.c; a task handle is the index of its TCB in tcb_pool, and the      *)
(* pools, the slot memory and the stack_base fields travel in one record   *)
(***************************************************************************)
Heap == [pools |-> pools, dirty |-> dirty, handed |-> handed, stack_base |-> stack_base]

StoreHeap(h) ==
  /\ pools' = h.pools
  /\ dirty' = h.dirty
  /\ handed' = h.handed
  /\ stack_base' = h.stack_base

\* the handle that a pointer into tcb_pool is
TaskOf(P, tcb) == tcb.off \div P[POOL_TCB].object_size

\* task_create_internal without task_pool_free_tcb on the stack failure path
task_create_internal_leaky(m, h, stack_size, priority) ==
  IF stack_size = 0 \/ priority > MAX_PRIORITY THEN [m |-> m, h |-> h, task |-> NoTask]
  ELSE LET a == task_pool_alloc_tcb(h.pools, h.dirty)
       IN  IF a.ptr = NullPtr THEN [m |-> m, h |-> h, task |-> NoTask]
           ELSE LET b == task_pool_alloc_stack(a.pools, a.dirty, stack_size)
                IN  IF b.ptr = NullPtr
                    THEN [m |-> m,
                          h |-> [h EXCEPT !.pools = a.pools, !.dirty = a.dirty],
                          task |-> NoTask]
                    ELSE LET t == TaskOf(h.pools, a.ptr)
                         IN  [m |-> [m EXCEPT
                                       !.base_priority[t] = priority,
                                       !.effective_priority[t] = priority,
                                       !.state[t] = "READY",
                                       !.wake_tick[t] = 0,
                                       !.wake_reason[t] = "NONE",
                                       !.waiting_on[t] = NULL,
                                       !.links = list_init(list_init(list_init(@,
                                                   ready_link(t)), delay_link(t)), wait_link(t))],
                              h |-> [pools |-> b.pools,
                                     dirty |-> b.dirty \cup {SlotOf(h.pools, a.ptr),
                                                             SlotOf(h.pools, b.ptr)},
                                     handed |-> h.handed \cup {SlotOf(h.pools, a.ptr),
                                                               SlotOf(h.pools, b.ptr)},
                                     stack_base |-> [h.stack_base EXCEPT ![t] = b.ptr]],
                              task |-> t]

\* the memory and the heap after the call, and the handle returned
task_create_internal(m, h, stack_size, priority) ==
  IF stack_size = 0 \/ priority > MAX_PRIORITY THEN [m |-> m, h |-> h, task |-> NoTask]
  ELSE LET a == task_pool_alloc_tcb(h.pools, h.dirty)
       IN  IF a.ptr = NullPtr THEN [m |-> m, h |-> h, task |-> NoTask]
           ELSE LET b == task_pool_alloc_stack(a.pools, a.dirty, stack_size)
                IN  IF b.ptr = NullPtr
                    THEN [m |-> m,
                          h |-> [h EXCEPT !.pools = task_pool_free_tcb(a.pools, a.ptr).pools,
                                          !.dirty = a.dirty],
                          task |-> NoTask]
                    ELSE LET t == TaskOf(h.pools, a.ptr)
                         IN  [m |-> [m EXCEPT
                                       !.base_priority[t] = priority,
                                       !.effective_priority[t] = priority,
                                       !.state[t] = "READY",
                                       !.wake_tick[t] = 0,
                                       !.wake_reason[t] = "NONE",
                                       !.waiting_on[t] = NULL,
                                       !.links = list_init(list_init(list_init(@,
                                                   ready_link(t)), delay_link(t)), wait_link(t))],
                              h |-> [pools |-> b.pools,
                                     dirty |-> b.dirty \cup {SlotOf(h.pools, a.ptr),
                                                             SlotOf(h.pools, b.ptr)},
                                     handed |-> h.handed \cup {SlotOf(h.pools, a.ptr),
                                                               SlotOf(h.pools, b.ptr)},
                                     stack_base |-> [h.stack_base EXCEPT ![t] = b.ptr]],
                              task |-> t]

\* the slots that are allocated according to the pools' bitmaps, of those in H
StillTaken(P, H) == {sl \in H : sl[2] \notin P[sl[1]].free_bitmap}

task_delete_internal(m, h, task) ==
  IF task = NoTask THEN [m |-> m, h |-> h]
  ELSE LET m1 == scheduler_remove_task([m EXCEPT !.state[task] = "DELETED"], task)
           P1 == IF h.stack_base[task] # NullPtr
                 THEN task_pool_free_stack(h.pools, h.stack_base[task]).pools
                 ELSE h.pools
           P2 == task_pool_free_tcb(P1, get_object_ptr(P1, POOL_TCB, task)).pools
       IN  [m |-> m1,
            h |-> [h EXCEPT !.pools = P2,
                            !.handed = StillTaken(P2, @),
                            !.stack_base[task] = NullPtr]]

(***************************************************************************)
(* kernel.c                                                                *)
(***************************************************************************)
task_create(m, h, stack_size, priority) ==
  LET r == task_create_internal(m, h, IF stack_size = 0 THEN DEFAULT_STACK_SIZE ELSE stack_size,
                                priority)
  IN  IF r.task # NoTask THEN [r EXCEPT !.m = scheduler_add_task(r.m, r.task)] ELSE r

\* task_delete without the test for the idle task's handle
task_delete_any(m, h, task) ==
  IF task = NoTask THEN [m |-> m, h |-> h]
  ELSE IF task = m.current_task
  THEN [m |-> scheduler_yield(scheduler_remove_task([m EXCEPT !.state[task] = "DELETED"], task)),
        h |-> h]
  ELSE task_delete_internal(m, h, task)

task_delete(m, h, task) ==
  IF task = NoTask \/ task = IdleTask THEN [m |-> m, h |-> h]
  ELSE IF task = m.current_task
  THEN [m |-> scheduler_yield(scheduler_remove_task([m EXCEPT !.state[task] = "DELETED"], task)),
        h |-> h]
  ELSE task_delete_internal(m, h, task)

task_yield(m) ==
  LET t == m.current_task
      m1 == IF m.state[t] = "RUNNING"
            THEN scheduler_add_task([m EXCEPT !.state[t] = "READY"], t)
            ELSE m
  IN  scheduler_yield(m1)

RECURSIVE CreateTasks(_, _, _)
\* task_create for the application tasks 1 .. n, in that order
CreateTasks(m, prio, n) ==
  IF n = 0 THEN m
  ELSE LET m1 == CreateTasks(m, prio, n - 1)
       IN  scheduler_add_task(
             [m1 EXCEPT !.base_priority[n] = prio[n], !.effective_priority[n] = prio[n]], n)

\* kernel_init (scheduler_init, idle task), the application's task_create,
\* sem_create and mutex_create calls
kernel_init(prio, initial_count, max) ==
  LET m0 == [links |-> [n \in Nodes |-> [next |-> n, prev |-> n]],
             state |-> [t \in Tasks |-> "READY"],
             base_priority |-> [t \in Tasks |-> MAX_PRIORITY],
             effective_priority |-> [t \in Tasks |-> MAX_PRIORITY],
             wake_tick |-> [t \in Tasks |-> 0],
             wake_reason |-> [t \in Tasks |-> "NONE"],
             waiting_on |-> [t \in Tasks |-> NULL],
             tick_now |-> 0,
             current_task |-> NoTask,
             next_task |-> NoTask,
             count |-> initial_count,
             max_count |-> max,
             owner |-> NoTask,
             original_priority |-> MAX_PRIORITY,
             halt |-> "none"]
  IN  CreateTasks(scheduler_add_task(m0, IdleTask), prio, Cardinality(DOMAIN prio))

(***************************************************************************)
(* Initial state and steps                                                 *)
(***************************************************************************)
Timeouts == (0 .. MaxTimeout) \cup {WAIT_FOREVER}

Delays == 1 .. MaxTimeout

\* the record kept in 'last'; forever tells a blocking call made with WAIT_FOREVER
OpW(name, t, r, to) == [op |-> name, task |-> t, ret |-> r, forever |-> (to = WAIT_FOREVER)]

Op(name, t, r) == OpW(name, t, r, NO_WAIT)

\* the state after kernel_init and the application's create calls, for the
\* tasks, priorities, semaphore sizes and ring buffers the application may
\* choose from; tick0 is the value the tick counter has when the run starts
InitState(users, prios, maxes, cbs, ncalls, nticks, tick0) ==
  /\ \E prio \in [users -> prios] :
       \E max \in maxes :
         \E initial_count \in 0 .. max :
           LET m == kernel_init(prio, initial_count, max)
           IN  /\ links = m.links
               /\ state = m.state
               /\ base_priority = m.base_priority
               /\ effective_priority = m.effective_priority
               /\ wake_tick = m.wake_tick
               /\ wake_reason = m.wake_reason
               /\ waiting_on = m.waiting_on
               /\ tick_now = tick0
               /\ current_task = m.current_task
               /\ next_task = m.next_task
               /\ count = m.count
               /\ max_count = m.max_count
               /\ owner = m.owner
               /\ original_priority = m.original_priority
               /\ halt = m.halt
  /\ kernel_running = FALSE
  /\ sem_live = TRUE
  /\ mutex_live = TRUE
  /\ pc = [t \in Tasks |-> "run"]
  /\ timeout = [t \in Tasks |-> 0]
  /\ deadline = [t \in Tasks |-> 0]
  /\ now_read = [t \in Tasks |-> 0]
  /\ armed_for = [t \in Tasks |-> 0]
  /\ ticks_armed = [t \in Tasks |-> 0]
  /\ holds = {}
  /\ cb \in cbs
  /\ queue_live = TRUE
  /\ pool_used = [qcb |-> 1, buffer |-> 1]
  /\ primask = 0
  /\ stmts = [t \in Tasks |-> <<>>]
  /\ waitq = <<>>
  /\ puts = <<>>
  /\ gets = <<>>
  /\ calls_left = ncalls
  /\ ticks_left = nticks
  /\ last = Op("kernel_init", NoTask, "NONE")

\* the control blocks, stacks and buffers of that application are taken from
\* the pools and in use
InitFor(users, prios, maxes, cbs, ncalls, nticks, tick0) ==
  /\ InitState(users, prios, maxes, cbs, ncalls, nticks, tick0)
  /\ pools = BootPools(Cardinality(users)).pools
  /\ handed = BootPools(Cardinality(users)).handed
  /\ dirty = handed
  /\ stack_base = [t \in Tasks |->
                     IF t = IdleTask THEN get_object_ptr(pools, POOL_STACK_SMALL, 0)
                     ELSE IF t \in users THEN get_object_ptr(pools, POOL_STACK_DEFAULT, t - 1)
                     ELSE NullPtr]

\* the application tasks 1 .. NumUserTasks and a queue of length 1
InitAt(prios, maxes, ncalls, nticks, tick0) ==
  InitFor(UserTasks, prios, maxes, {queue_create(1)}, ncalls, nticks, tick0)

\* a run that starts at boot: scheduler_init set tick_now to 0
InitWith(prios, maxes, ncalls, nticks) == InitAt(prios, maxes, ncalls, nticks, 0)

Init == InitWith(Priorities, 1 .. MaxSemMax, MaxCalls, MaxTicks)

ctlvars == <<pc, timeout, deadline, now_read, armed_for, ticks_armed>>

\* the CPU executes task t
Runs(t) == kernel_running /\ halt = "none" /\ current_task = t

\* task t, in application code, starts a kernel call
Calls(t) ==
  /\ Runs(t) /\ pc[t] = "run" /\ calls_left > 0
  /\ calls_left' = calls_left - 1
  /\ UNCHANGED ticks_left

\* a step inside a kernel call, or of the idle loop
Continues == UNCHANGED <<calls_left, ticks_left>>

\* a blocking call of t ended: its locals are dead
Return(t) ==
  /\ pc' = [pc EXCEPT ![t] = "run"]
  /\ timeout' = [timeout EXCEPT ![t] = 0]
  /\ deadline' = [deadline EXCEPT ![t] = 0]
  /\ now_read' = [now_read EXCEPT ![t] = 0]
  /\ armed_for' = [armed_for EXCEPT ![t] = 0]
  /\ ticks_armed' = [ticks_armed EXCEPT ![t] = 0]

\* a pass of a blocking call of t ended at scheduler_yield
Block(t, at, to, dl, now) ==
  /\ pc' = [pc EXCEPT ![t] = at]
  /\ timeout' = [timeout EXCEPT ![t] = to]
  /\ deadline' = [deadline EXCEPT ![t] = dl]
  /\ now_read' = [now_read EXCEPT ![t] = now]
  /\ armed_for' = [armed_for EXCEPT ![t] = IF to = WAIT_FOREVER THEN 0 ELSE ticks_until(dl, now)]
  /\ ticks_armed' = [ticks_armed EXCEPT ![t] = 0]

KernelStart ==
  /\ ~kernel_running
  /\ Continues
  /\ kernel_running' = TRUE
  /\ Store(scheduler_start(Mem))
  /\ last' = Op("kernel_start", NoTask, "NONE")
  /\ UNCHANGED <<ctlvars, sem_live, mutex_live, holds>>
  /\ UNCHANGED qvars

\* the tick interrupt is taken only while PRIMASK is clear
Tick ==
  /\ kernel_running /\ halt = "none" /\ ticks_left > 0 /\ primask = 0
  /\ ticks_left' = ticks_left - 1
  /\ UNCHANGED calls_left
  /\ \E gar \in Garbage : Store(SysTick_Handler(Mem, gar))
  /\ ticks_armed' = [t \in Tasks |->
                       IF armed_for[t] > 0 /\ ticks_armed[t] <= MaxTimeout
                       THEN ticks_armed[t] + 1 ELSE ticks_armed[t]]
  /\ last' = Op("tick", NoTask, "NONE")
  /\ UNCHANGED <<pc, timeout, deadline, now_read, armed_for, kernel_running,
                 sem_live, mutex_live, holds>>
  /\ UNCHANGED qvars

\* the idle task's loop: task_yield, over and over
IdleYield ==
  /\ Runs(IdleTask) /\ Continues
  /\ Store(task_yield(Mem))
  /\ last' = Op("task_yield", IdleTask, "NONE")
  /\ UNCHANGED <<ctlvars, kernel_running, sem_live, mutex_live, holds>>
  /\ UNCHANGED qvars

TaskYield(t) ==
  /\ Calls(t)
  /\ Store(task_yield(Mem))
  /\ last' = Op("task_yield", t, "NONE")
  /\ UNCHANGED <<ctlvars, kernel_running, sem_live, mutex_live, holds>>
  /\ UNCHANGED qvars

\* task_delay up to the context switch away from the caller
TaskDelay(t, ticks) ==
  /\ Calls(t)
  /\ \E gar \in Garbage :
       LET m1 == scheduler_delay_current_task(Mem, ticks, gar)
       IN  Store(IF m1.halt = "none" THEN scheduler_yield(m1) ELSE m1)
  /\ Block(t, "task_delay_resume", ticks, (tick_now + ticks) % TickMod, tick_now)
  /\ last' = Op("task_delay", t, "BLOCK")
  /\ UNCHANGED <<kernel_running, sem_live, mutex_live, holds>>
  /\ UNCHANGED qvars

\* task_delay returns once the caller runs again
TaskDelayResume(t) ==
  /\ Runs(t) /\ pc[t] = "task_delay_resume" /\ Continues
  /\ Return(t)
  /\ last' = Op("task_delay", t, "NONE")
  /\ UNCHANGED <<memvars, kernel_running, sem_live, mutex_live, holds>>
  /\ UNCHANGED qvars

SemWait(t, to) ==
  /\ Calls(t) /\ sem_live
  /\ \E gar \in Garbage :
       LET dl == (tick_now + to) % TickMod
           r == sem_wait_pass(Mem, to, dl, gar)
       IN  /\ Store(r.m)
           /\ IF r.ret = "BLOCK" THEN Block(t, "sem_wait_yield", to, dl, r.now)
              ELSE Return(t)
           /\ last' = OpW("sem_wait", t, r.ret, to)
  /\ UNCHANGED <<kernel_running, sem_live, mutex_live, holds>>
  /\ UNCHANGED qvars

SemWaitYield(t) ==
  /\ Runs(t) /\ pc[t] = "sem_wait_yield" /\ Continues
  /\ Store(scheduler_yield(Mem))
  /\ pc' = [pc EXCEPT ![t] = "sem_wait_resume"]
  /\ last' = Op("scheduler_yield", t, "NONE")
  /\ UNCHANGED <<timeout, deadline, now_read, armed_for, ticks_armed,
                 kernel_running, sem_live, mutex_live, holds>>
  /\ UNCHANGED qvars

SemWaitResume(t) ==
  /\ Runs(t) /\ pc[t] = "sem_wait_resume" /\ Continues
  /\ LET a == sem_wait_resume(Mem, timeout[t], deadline[t], now_read[t])
     IN  IF a.ret # "RETRY"
         THEN /\ Return(t)
              /\ last' = OpW("sem_wait", t, a.ret, timeout[t])
              /\ UNCHANGED memvars
         ELSE \E gar \in Garbage :
                LET r == sem_wait_pass(Mem, a.timeout, deadline[t], gar)
                IN  /\ Store(r.m)
                    /\ IF r.ret = "BLOCK"
                       THEN Block(t, "sem_wait_yield", a.timeout, deadline[t], r.now)
                       ELSE Return(t)
                    /\ last' = OpW("sem_wait", t, r.ret, timeout[t])
  /\ UNCHANGED <<kernel_running, sem_live, mutex_live, holds>>
  /\ UNCHANGED qvars

SemPost(t) ==
  /\ Calls(t) /\ sem_live
  /\ LET r == sem_post(Mem)
     IN  /\ Store(r.m)
         /\ last' = Op("sem_post", t, r.ret)
  /\ UNCHANGED <<ctlvars, kernel_running, sem_live, mutex_live, holds>>
  /\ UNCHANGED qvars

\* the control block goes back to its pool when the wake-up loop ends
SemDelete(t) ==
  /\ Calls(t) /\ sem_live
  /\ LET m1 == sem_delete(Mem)
         P1 == IF m1.halt = "none"
               THEN sem_pool_free_scb(pools, get_object_ptr(pools, POOL_SCB, 0)).pools
               ELSE pools
     IN  /\ Store(m1)
         /\ pools' = P1
         /\ handed' = StillTaken(P1, handed)
  /\ sem_live' = FALSE
  /\ last' = Op("sem_delete", t, "NONE")
  /\ UNCHANGED <<ctlvars, kernel_running, mutex_live, holds>>
  /\ UNCHANGED <<cb, queue_live, pool_used, cvars, dirty, stack_base, waitq, puts, gets>>

MutexLock(t, to) ==
  /\ Calls(t) /\ mutex_live
  /\ \E gar \in Garbage :
       LET dl == (tick_now + to) % TickMod
           r == mutex_lock_pass(Mem, to, dl, gar)
       IN  /\ Store(r.m)
           /\ IF r.ret = "BLOCK" THEN Block(t, "mutex_lock_yield", to, dl, tick_now)
              ELSE Return(t)
           /\ holds' = IF r.ret = "MUTEX_OK" THEN holds \cup {t} ELSE holds
           /\ last' = OpW("mutex_lock", t, r.ret, to)
  /\ UNCHANGED <<kernel_running, sem_live, mutex_live>>
  /\ UNCHANGED qvars

MutexLockYield(t) ==
  /\ Runs(t) /\ pc[t] = "mutex_lock_yield" /\ Continues
  /\ Store(scheduler_yield(Mem))
  /\ pc' = [pc EXCEPT ![t] = "mutex_lock_resume"]
  /\ last' = Op("scheduler_yield", t, "NONE")
  /\ UNCHANGED <<timeout, deadline, now_read, armed_for, ticks_armed,
                 kernel_running, sem_live, mutex_live, holds>>
  /\ UNCHANGED qvars

MutexLockResume(t) ==
  /\ Runs(t) /\ pc[t] = "mutex_lock_resume" /\ Continues
  /\ LET a == mutex_lock_resume(Mem, timeout[t], deadline[t])
     IN  IF a.ret # "RETRY"
         THEN /\ Return(t)
              /\ last' = OpW("mutex_lock", t, a.ret, timeout[t])
              /\ UNCHANGED <<memvars, holds>>
         ELSE \E gar \in Garbage :
                LET r == mutex_lock_pass(Mem, a.timeout, deadline[t], gar)
                IN  /\ Store(r.m)
                    /\ IF r.ret = "BLOCK"
                       THEN Block(t, "mutex_lock_yield", a.timeout, deadline[t], tick_now)
                       ELSE Return(t)
                    /\ holds' = IF r.ret = "MUTEX_OK" THEN holds \cup {t} ELSE holds
                    /\ last' = OpW("mutex_lock", t, r.ret, timeout[t])
  /\ UNCHANGED <<kernel_running, sem_live, mutex_live>>
  /\ UNCHANGED qvars

MutexUnlock(t) ==
  /\ Calls(t) /\ mutex_live
  /\ LET r == mutex_unlock(Mem)
     IN  /\ Store(r.m)
         /\ holds' = IF r.ret = "MUTEX_OK" THEN holds \ {t} ELSE holds
         /\ last' = Op("mutex_unlock", t, r.ret)
  /\ UNCHANGED <<ctlvars, kernel_running, sem_live, mutex_live>>
  /\ UNCHANGED qvars

MutexDelete(t) ==
  /\ Calls(t) /\ mutex_live
  /\ LET m1 == mutex_delete(Mem)
         P1 == IF m1.halt = "none"
               THEN mutex_pool_free_mcb(pools, get_object_ptr(pools, POOL_MCB, 0)).pools
               ELSE pools
     IN  /\ Store(m1)
         /\ pools' = P1
         /\ handed' = StillTaken(P1, handed)
  /\ mutex_live' = FALSE
  /\ holds' = {}
  /\ last' = Op("mutex_delete", t, "NONE")
  /\ UNCHANGED <<ctlvars, kernel_running, sem_live>>
  /\ UNCHANGED <<cb, queue_live, pool_used, cvars, dirty, stack_base, waitq, puts, gets>>

\* what is left of a sequence of tasks without t
Without(q, t) == SelectSeq(q, LAMBDA x : x # t)

\* the bookkeeping common to the steps of queue_send and queue_receive: r is
\* the outcome of the pass, name the function, to and dl its timeout and deadline
QueueStep(t, r, name, to, dl) ==
  /\ Store(r.m)
  /\ cb' = r.cb
  /\ IF r.ret = "BLOCK"
     THEN Block(t, IF name = "queue_send" THEN "queue_send_yield" ELSE "queue_receive_yield",
                to, dl, tick_now)
     ELSE Return(t)
  /\ waitq' = IF r.ret # "BLOCK" THEN Without(waitq, t)
              ELSE IF waiting_on[t] = "queue" /\ Without(waitq, t) # waitq THEN waitq
              ELSE Append(Without(waitq, t), t)
  /\ puts' = IF name = "queue_send" /\ r.ret = "QUEUE_SUCCESS" THEN Append(puts, r.data) ELSE puts
  /\ gets' = IF name = "queue_receive" /\ r.ret = "QUEUE_SUCCESS" THEN Append(gets, r.data)
             ELSE gets
  /\ last' = OpW(name, t, r.ret, to)
  /\ UNCHANGED <<kernel_running, sem_live, mutex_live, holds, queue_live, pool_used, cvars, pvars>>

\* a task sends a message that names it
QueueSend(t, to) ==
  /\ Calls(t) /\ queue_live
  /\ \E gar \in Garbage :
       LET dl == (tick_now + to) % TickMod
       IN  QueueStep(t, queue_send_pass(Mem, cb, t, to, dl, gar), "queue_send", to, dl)

QueueReceive(t, to) ==
  /\ Calls(t) /\ queue_live
  /\ \E gar \in Garbage :
       LET dl == (tick_now + to) % TickMod
       IN  QueueStep(t, queue_receive_pass(Mem, cb, to, dl, gar), "queue_receive", to, dl)

QueueYield(t) ==
  /\ Runs(t) /\ pc[t] \in {"queue_send_yield", "queue_receive_yield"} /\ Continues
  /\ Store(scheduler_yield(Mem))
  /\ pc' = [pc EXCEPT ![t] = IF @ = "queue_send_yield" THEN "queue_send_resume"
                             ELSE "queue_receive_resume"]
  /\ last' = Op("scheduler_yield", t, "NONE")
  /\ UNCHANGED <<timeout, deadline, now_read, armed_for, ticks_armed,
                 kernel_running, sem_live, mutex_live, holds, qvars>>

QueueResume(t) ==
  /\ Runs(t) /\ pc[t] \in {"queue_send_resume", "queue_receive_resume"} /\ Continues
  /\ LET name == IF pc[t] = "queue_send_resume" THEN "queue_send" ELSE "queue_receive"
         a == queue_resume(Mem, deadline[t])
     IN  IF a.ret # "RETRY"
         THEN QueueStep(t, [m |-> Mem, cb |-> cb, ret |-> a.ret, data |-> NoItem],
                        name, timeout[t], deadline[t])
         ELSE \E gar \in Garbage :
                QueueStep(t, IF name = "queue_send"
                             THEN queue_send_pass(Mem, cb, t, a.timeout, deadline[t], gar)
                             ELSE queue_receive_pass(Mem, cb, a.timeout, deadline[t], gar),
                          name, a.timeout, deadline[t])

QueueDelete(t) ==
  /\ Calls(t) /\ queue_live
  /\ \E crash \in BOOLEAN :
       LET r == queue_delete(Mem, cb, crash)
       IN  Store(r.m) /\ cb' = r.cb
  /\ queue_live' = FALSE
  /\ last' = Op("queue_delete", t, "NONE")
  /\ UNCHANGED <<ctlvars, kernel_running, sem_live, mutex_live, holds, pool_used, cvars, pvars, waitq,
                 puts, gets>>

\* direct calls of the ring buffer, outside any task
CbPut(v) ==
  /\ ~kernel_running /\ calls_left > 0
  /\ calls_left' = calls_left - 1
  /\ LET r == cb_put(cb, v)
     IN  /\ cb' = r.cb
         /\ puts' = IF r.ret = "CB_SUCCESS" THEN Append(puts, v) ELSE puts
         /\ last' = Op("cb_put", NoTask, r.ret)
  /\ UNCHANGED <<memvars, ctlvars, kernel_running, sem_live, mutex_live, holds, queue_live,
                 pool_used, cvars, pvars, waitq, gets, ticks_left>>

CbGet ==
  /\ ~kernel_running /\ calls_left > 0
  /\ calls_left' = calls_left - 1
  /\ LET r == cb_get(cb)
     IN  /\ cb' = r.cb
         /\ gets' = IF r.ret = "CB_SUCCESS" THEN Append(gets, r.data) ELSE gets
         /\ last' = Op("cb_get", NoTask, r.ret)
  /\ UNCHANGED <<memvars, ctlvars, kernel_running, sem_live, mutex_live, holds, queue_live,
                 pool_used, cvars, pvars, waitq, puts, ticks_left>>

\* the handles a task may hold: NULL and those of the tasks whose TCB is
\* allocated
Handles == {NoTask} \cup {t \in Tasks : <<POOL_TCB, t>> \in handed}

\* the record kept in 'last' by task_create and task_delete: the caller, the
\* handle passed or returned, and for task_create "NULL" or "TASK"
TaskOp(name, t, task, r) ==
  [op |-> name, task |-> t, ret |-> r, forever |-> FALSE, arg |-> task]

TaskCreate(t, stack_size, priority) ==
  /\ Calls(t)
  /\ LET r == task_create(Mem, Heap, stack_size, priority)
     IN  /\ Store(r.m)
         /\ StoreHeap(r.h)
         /\ last' = TaskOp("task_create", t, r.task,
                           IF r.task = NoTask THEN "NULL" ELSE "TASK")
  /\ UNCHANGED <<ctlvars, kernel_running, sem_live, mutex_live, holds, cb, queue_live,
                 pool_used, cvars, waitq, puts, gets>>

TaskDelete(t, task) ==
  /\ Calls(t)
  /\ LET r == task_delete(Mem, Heap, task)
     IN  /\ Store(r.m)
         /\ StoreHeap(r.h)
         /\ last' = TaskOp("task_delete", t, task, "NONE")
  /\ UNCHANGED <<ctlvars, kernel_running, sem_live, mutex_live, holds, cb, queue_live,
                 pool_used, cvars, waitq, puts, gets>>

\* the record kept in 'last' by a call of memory.c: its argument and result
PoolOp(name, arg, r) ==
  [op |-> name, task |-> NoTask, ret |-> r, forever |-> FALSE, arg |-> arg]

\* what is left unchanged by a call of memory.c made before the kernel starts
PoolFrame ==
  UNCHANGED <<memvars, ctlvars, kernel_running, sem_live, mutex_live, holds, cb, queue_live,
              pool_used, cvars, stack_base, waitq, puts, gets, ticks_left>>

\* the pointers handed to the free functions: the base of a slot of a pool,
\* an address one byte inside the slot, the end of the pool's array, NULL
Pointers ==
  {NullPtr}
    \cup {[pool |-> q, off |-> (i * pools[q].object_size) + d] :
            q \in PoolTypes, i \in 0 .. MaxFreedSlot, d \in {0, 1}}
    \cup {[pool |-> q, off |-> pools[q].pool_size] : q \in PoolTypes}

\* the pool ids a caller may pass, POOL_COUNT being no pool
PoolIds == 0 .. POOL_COUNT

\* the pointers a caller passes together with pool id pool_type: those into
\* that pool, NULL, and the first slot of the pool after it
PointersFor(pool_type) ==
  {ptr \in Pointers :
     \/ ptr = NullPtr
     \/ ptr.pool = pool_type % POOL_COUNT
     \/ ptr.pool = (pool_type + 1) % POOL_COUNT /\ ptr.off \in {0, 1}}

PoolAlloc(pool_type) ==
  /\ ~kernel_running /\ calls_left > 0
  /\ calls_left' = calls_left - 1
  /\ LET r == pool_alloc(pools, dirty, pool_type)
     IN  /\ pools' = r.pools
         /\ dirty' = r.dirty
         /\ handed' = IF r.ptr = NullPtr THEN handed ELSE handed \cup {SlotOf(pools, r.ptr)}
         /\ last' = PoolOp("pool_alloc", pool_type, r.ptr)
  /\ PoolFrame

PoolFree(pool_type, ptr) ==
  /\ ~kernel_running /\ calls_left > 0
  /\ calls_left' = calls_left - 1
  /\ LET r == pool_free(pools, pool_type, ptr)
     IN  /\ pools' = r.pools
         /\ handed' = {sl \in handed : sl[2] \notin r.pools[sl[1]].free_bitmap}
         /\ last' = PoolOp("pool_free", <<pool_type, ptr>>, r.ret)
  /\ dirty' = dirty
  /\ PoolFrame

\* the owner of a slot writes into it
PoolWrite(sl) ==
  /\ ~kernel_running /\ calls_left > 0
  /\ sl \in handed /\ sl \notin dirty
  /\ calls_left' = calls_left - 1
  /\ dirty' = dirty \cup {sl}
  /\ last' = PoolOp("write", sl, TRUE)
  /\ UNCHANGED <<pools, handed>>
  /\ PoolFrame

TaskPoolAllocStack(requested_size) ==
  /\ ~kernel_running /\ calls_left > 0
  /\ calls_left' = calls_left - 1
  /\ LET r == task_pool_alloc_stack(pools, dirty, requested_size)
     IN  /\ pools' = r.pools
         /\ dirty' = r.dirty
         /\ handed' = IF r.ptr = NullPtr THEN handed ELSE handed \cup {SlotOf(pools, r.ptr)}
         /\ last' = PoolOp("task_pool_alloc_stack", requested_size, r.ptr)
  /\ PoolFrame

QueuePoolAllocBuffer(requested_size) ==
  /\ ~kernel_running /\ calls_left > 0
  /\ calls_left' = calls_left - 1
  /\ LET r == queue_pool_alloc_buffer(pools, dirty, requested_size)
     IN  /\ pools' = r.pools
         /\ dirty' = r.dirty
         /\ handed' = IF r.ptr = NullPtr THEN handed ELSE handed \cup {SlotOf(pools, r.ptr)}
         /\ last' = PoolOp("queue_pool_alloc_buffer", requested_size, r.ptr)
  /\ PoolFrame

Next ==
  \/ KernelStart
  \/ Tick
  \/ IdleYield
  \/ \E t \in UserTasks : TaskYield(t)
  \/ \E t \in UserTasks : \E n \in Delays : TaskDelay(t, n)
  \/ \E t \in UserTasks : TaskDelayResume(t)
  \/ \E t \in UserTasks : \E to \in Timeouts : SemWait(t, to)
  \/ \E t \in UserTasks : SemWaitYield(t)
  \/ \E t \in UserTasks : SemWaitResume(t)
  \/ \E t \in UserTasks : SemPost(t)
  \/ \E t \in UserTasks : SemDelete(t)
  \/ \E t \in UserTasks : \E to \in Timeouts : MutexLock(t, to)
  \/ \E t \in UserTasks : MutexLockYield(t)
  \/ \E t \in UserTasks : MutexLockResume(t)
  \/ \E t \in UserTasks : MutexUnlock(t)
  \/ \E t \in UserTasks : MutexDelete(t)
  \/ \E t \in UserTasks : \E to \in Timeouts : QueueSend(t, to)
  \/ \E t \in UserTasks : \E to \in Timeouts : QueueReceive(t, to)
  \/ \E t \in UserTasks : QueueYield(t)
  \/ \E t \in UserTasks : QueueResume(t)
  \/ \E t \in UserTasks : QueueDelete(t)

Spec == Init /\ [][Next]_vars

\* an application that uses the semaphore: two tasks of priority 1 or of the
\* idle task's priority
SemPriorities == {1, MAX_PRIORITY}

InitSem ==
  /\ InitWith(SemPriorities, 1 .. MaxSemMax, SemCalls, SemTicks)
  /\ base_priority[1] <= base_priority[2]

NextSem ==
  \/ KernelStart
  \/ Tick
  \/ IdleYield
  \/ \E t \in UserTasks : TaskYield(t)
  \/ \E t \in UserTasks : \E to \in Timeouts : SemWait(t, to)
  \/ \E t \in UserTasks : SemWaitYield(t)
  \/ \E t \in UserTasks : SemWaitResume(t)
  \/ \E t \in UserTasks : SemPost(t)
  \/ \E t \in UserTasks : SemDelete(t)

SpecSem == InitSem /\ [][NextSem]_vars

\* an application that uses the mutex and task_delay
MutexPriorities == {1, 3}

InitMutex == InitWith(MutexPriorities, {1}, MaxCalls, MaxTicks) /\ count = 0

NextMutex ==
  \/ KernelStart
  \/ Tick
  \/ IdleYield
  \/ \E t \in UserTasks : \E n \in Delays : TaskDelay(t, n)
  \/ \E t \in UserTasks : TaskDelayResume(t)
  \/ \E t \in UserTasks : \E to \in Timeouts : MutexLock(t, to)
  \/ \E t \in UserTasks : MutexLockYield(t)
  \/ \E t \in UserTasks : MutexLockResume(t)
  \/ \E t \in UserTasks : MutexUnlock(t)
  \/ \E t \in UserTasks : MutexDelete(t)

SpecMutex == InitMutex /\ [][NextMutex]_vars

\* an application that only delays, started two ticks before the tick counter
\* wraps, and run until every delay it can arm is overdue
WrapStart == TickMod - 2

WrapTicks == MaxTimeout + 4

InitWrap == InitAt(MutexPriorities, {1}, MaxCalls, WrapTicks, WrapStart) /\ count = 0

NextWrap ==
  \/ KernelStart
  \/ Tick
  \/ IdleYield
  \/ \E t \in UserTasks : \E n \in Delays : TaskDelay(t, n)
  \/ \E t \in UserTasks : TaskDelayResume(t)

SpecWrap == InitWrap /\ [][NextWrap]_vars

\* an application of three tasks of priority 1 that uses the queue, with no
\* timeout or the largest one
\* two application tasks that only yield, under the tick interrupt; the idle
\* task never gets the CPU here, a user task is always ahead of it
NextRobin ==
  \/ KernelStart
  \/ Tick
  \/ \E t \in UserTasks : TaskYield(t)

SpecRobin == InitMutex /\ [][NextRobin]_vars

QueueTimeouts == {NO_WAIT, MaxTimeout}

InitQueue ==
  /\ InitFor(QueueUsers, {1}, {1}, {queue_create(n) : n \in 1 .. MaxQueueLen},
             QueueCalls, QueueTicks, 0)
  /\ count = 0

\* the idle task never gets the CPU here: no queue call takes a task off its
\* ready queue, so a user task is always ahead of it
NextQueue ==
  \/ KernelStart
  \/ Tick
  \/ \E t \in QueueUsers : \E to \in QueueTimeouts : QueueSend(t, to)
  \/ \E t \in QueueUsers : \E to \in QueueTimeouts : QueueReceive(t, to)
  \/ \E t \in QueueUsers : QueueYield(t)
  \/ \E t \in QueueUsers : QueueResume(t)
  \/ \E t \in QueueUsers : QueueDelete(t)

SpecQueue == InitQueue /\ [][NextQueue]_vars

\* the ring buffer alone, as its unit tests use it
InitRing ==
  /\ InitFor(UserTasks, {1}, {1}, {cb_init(n) : n \in 1 .. MaxRingLen},
             RingCalls, 0, 0)
  /\ count = 0

NextRing ==
  \/ \E v \in Values : CbPut(v)
  \/ CbGet

SpecRing == InitRing /\ [][NextRing]_vars

\* the application tasks, those created while the kernel runs included
AppTasks == Tasks \ {IdleTask}

\* the stack sizes and priorities passed to task_create: the default size,
\* the large one, one that fits no class; a priority and one past the last
CreateSizes == {0, LARGE_STACK_SIZE, LARGE_STACK_SIZE + 1}

CreatePriorities == {1, MAX_PRIORITY + 1}

\* two application tasks of priority 1 that yield, create and delete tasks
InitTasks == InitWith({1}, {1}, TaskCalls, TaskTicks) /\ count = 0

NextTasks ==
  \/ KernelStart
  \/ Tick
  \/ IdleYield
  \/ \E t \in AppTasks : TaskYield(t)
  \/ \E t \in AppTasks : \E stack_size \in CreateSizes :
       \E priority \in CreatePriorities : TaskCreate(t, stack_size, priority)
  \/ \E t \in AppTasks : \E task \in Handles : TaskDelete(t, task)

SpecTasks == InitTasks /\ [][NextTasks]_vars

\* the same where the idle task, whenever it has the CPU, goes round its
\* loop: idle_task_function is a while (1)
SpecTasksFair == SpecTasks /\ WF_vars(IdleYield)

\* pool_alloc(pool_type) until one slot of the pool is left
AllButOne(P, pool_type) ==
  AllocSeq(P, {}, [i \in 1 .. (P[pool_type].free_count - 1) |-> pool_type])

\* the pools alone, as their unit tests use them: memory_pools_init, then the
\* set-up of a test takes all slots but one of every pool, or none; a call
\* changes the pool it names only, so each pool is filled on its own
Prefill(full) ==
  LET P == memory_pools_init(MAX_TASKS)
  IN  IF full
      THEN [pools |-> [t \in PoolTypes |-> AllButOne(P, t).pools[t]],
            handed |-> UNION {AllButOne(P, t).handed : t \in PoolTypes}]
      ELSE [pools |-> P, handed |-> {}]

\* the sizes asked of a size class: none, one byte, each class size and one
\* byte more
StackRequests ==
  {0, 1} \cup {c + d : c \in {SMALL_STACK_SIZE, DEFAULT_STACK_SIZE, LARGE_STACK_SIZE},
                       d \in {0, 1}}

BufferRequests ==
  {0, 1} \cup {c + d : c \in {SMALL_BUFFER_SIZE, DEFAULT_BUFFER_SIZE, LARGE_BUFFER_SIZE},
                       d \in {0, 1}}

InitPool ==
  /\ InitState(UserTasks, {1}, {1}, {queue_create(1)}, PoolCalls, 0, 0)
  /\ count = 0
  /\ \E full \in BOOLEAN :
       /\ pools = Prefill(full).pools
       /\ handed = Prefill(full).handed
  /\ dirty = handed
  /\ stack_base = [t \in Tasks |-> NullPtr]

NextPool ==
  \/ \E pool_type \in PoolIds : PoolAlloc(pool_type)
  \/ \E pool_type \in PoolIds : \E ptr \in PointersFor(pool_type) : PoolFree(pool_type, ptr)
  \/ \E sl \in handed : PoolWrite(sl)
  \/ \E requested_size \in StackRequests : TaskPoolAllocStack(requested_size)
  \/ \E requested_size \in BufferRequests : QueuePoolAllocBuffer(requested_size)

SpecPool == InitPool /\ [][NextPool]_vars

(***************************************************************************)
(* What a traversal of a list meets                                        *)
(***************************************************************************)
RECURSIVE Walk(_, _, _, _)
\* list_iter: the nodes met from pos until the head h, or until a node met before
Walk(L, h, pos, seen) ==
  IF pos = h \/ pos \in seen THEN seen
  ELSE Walk(L, h, L[pos].next, seen \cup {pos})

\* the tasks whose wait_link a traversal of the wait-list h meets
WaitersOf(L, h) == {container_of(n) : n \in {x \in Walk(L, h, L[h].next, {}) : IsLink(x)}}

\* task t's ready_link is met by a traversal of some ready queue
OnReadyQueue(t) ==
  \E p \in Priorities : ready_link(t) \in Walk(links, ReadyHead(p), links[ReadyHead(p)].next, {})

\* pc values of a task inside a blocking call
InSemWait(t) == pc[t] \in {"sem_wait_yield", "sem_wait_resume"}

InMutexLock(t) == pc[t] \in {"mutex_lock_yield", "mutex_lock_resume"}

(***************************************************************************)
(* Mutex ownership                                                         *)
(***************************************************************************)
C1_Step ==
  /\ (last'.op = "mutex_lock" /\ last'.ret = "MUTEX_OK")
       => (owner = NoTask /\ owner' = last'.task)
  /\ (last'.op = "mutex_unlock" /\ last'.ret = "MUTEX_OK")
       => (owner = last'.task /\ last'.task \in holds)
  /\ (owner # NoTask /\ owner' # owner)
       => (last'.op = "mutex_unlock" /\ last'.ret = "MUTEX_OK" /\ last'.task = owner)
  /\ Cardinality(holds') <= 1
  /\ (mutex_live' /\ holds' # {}) => holds' = {owner'}

\* C1: mutex_lock returns MUTEX_OK to a task only when owner was NULL, owner is
\* that task until its own successful mutex_unlock (or mutex_delete), no two
\* tasks hold the mutex at once, and only the owner unlocks successfully.
C1_MutualExclusion == [][C1_Step]_vars

\* a waiter that was refused while the mutex was held got the mutex after the
\* owner's unlock woke it
C1_Witness ==
  /\ last.op = "mutex_lock" /\ last.ret = "MUTEX_OK"
  /\ wake_reason[last.task] = "DATA_AVAILABLE"
  /\ owner = last.task

\* C2: after an owner boosted by priority inheritance unlocks successfully,
\* its effective_priority equals its base_priority.
C2_RestoredOnUnlock ==
  [][(/\ last'.op = "mutex_unlock" /\ last'.ret = "MUTEX_OK"
      /\ effective_priority[last'.task] < base_priority[last'.task])
       => effective_priority'[last'.task] = base_priority'[last'.task]]_vars

\* C3: the step of mutex_lock that enqueues a waiter on an owned mutex leaves
\* the owner's effective_priority numerically <= the waiter's, and the
\* effective_priority of that owner does not rise again for as long as it
\* holds the mutex.
C3_OwnerBoosted ==
  [][/\ (last'.op = "mutex_lock" /\ last'.ret = "BLOCK")
          => (/\ owner' = owner /\ owner # NoTask
              /\ effective_priority'[last'.task] = effective_priority[last'.task]
              /\ effective_priority'[owner] <= effective_priority[last'.task])
     /\ (mutex_live /\ owner # NoTask /\ owner' = owner)
          => effective_priority'[owner] <= effective_priority[owner]]_vars

\* a waiter of higher priority than the owner's base priority is enqueued
C3_Witness ==
  /\ halt = "none" /\ mutex_live /\ owner # NoTask
  /\ \E h \in UserTasks :
       /\ h # owner /\ InMutexLock(h) /\ waiting_on[h] = "mutex"
       /\ h \in WaitersOf(links, MutexHead)
       /\ effective_priority[h] < base_priority[owner]
       /\ effective_priority[owner] = effective_priority[h]

\* C4: a task that armed a timeout of N ticks and was not released by a peer
\* has been made Ready with wake_reason TIMEOUT once N tick interrupts have
\* been taken, and not before.
C4_ExpiresOnNthTick ==
  \A t \in UserTasks :
    (/\ halt = "none" /\ armed_for[t] > 0
     /\ (InSemWait(t) \/ InMutexLock(t))
     /\ wake_reason[t] \notin {"DATA_AVAILABLE", "SIGNAL"})
      => ((wake_reason[t] = "TIMEOUT" /\ state[t] = "READY") <=> ticks_armed[t] >= armed_for[t])

\* C5: a sem_wait or mutex_lock called with WAIT_FOREVER never returns
\* Timeout, and the task blocked in it has no delayed-list entry.
C5_ForeverNeverTimesOut ==
  /\ ~(/\ last.op \in {"sem_wait", "mutex_lock"} /\ last.forever
       /\ last.ret \in {"SEM_ERROR_TIMEOUT", "MUTEX_ERROR_TIMEOUT"})
  /\ \A t \in UserTasks :
       ((InSemWait(t) \/ InMutexLock(t)) /\ timeout[t] = WAIT_FOREVER)
         => list_is_empty(links, delay_link(t))

\* C6: the sem_wait of a waiter that sem_post released returns SEM_OK when the
\* waiter next runs.
C6_HandoffSucceeds ==
  [][\A t \in UserTasks :
       (/\ sem_live /\ pc[t] = "sem_wait_resume" /\ pc'[t] # "sem_wait_resume"
        /\ wake_reason[t] = "DATA_AVAILABLE" /\ waiting_on[t] = NULL)
         => (last'.op = "sem_wait" /\ last'.task = t /\ last'.ret = "SEM_OK")]_vars

\* C7: count + (number of tasks on the wait-list) <= max_count.
C7_CountPlusWaiters ==
  sem_live => count + Cardinality(WaitersOf(links, SemHead)) <= max_count

\* C7, as the code keeps it: count never exceeds max_count, and count is 0
\* whenever the wait-list is not empty.
C7_Amended ==
  sem_live => /\ count <= max_count
              /\ (~list_is_empty(links, SemHead)) => count = 0

\* two tasks wait on a semaphore that holds no token
C7_Witness ==
  /\ halt = "none" /\ sem_live /\ count = 0
  /\ Cardinality(WaitersOf(links, SemHead)) = 2

C8_Step ==
  LET before == WaitersOf(links, SemHead)
      after == WaitersOf(links', SemHead)
  IN  last'.op = "sem_post" =>
        IF last'.ret = "SEM_OK"
        THEN \/ /\ count' = count + 1 /\ after = before
                /\ list_is_empty(links, SemHead) /\ count < max_count
             \/ /\ count' = count
                /\ \E w \in before : after = before \ {w}
        ELSE /\ last'.ret = "SEM_ERROR_OVERFLOW"
             /\ list_is_empty(links, SemHead) /\ count = max_count
             /\ count' = count /\ after = before

\* C8: a sem_post that returns SEM_OK either increments count by one (wait-list
\* empty, count < max_count) or removes exactly one waiter and leaves count,
\* never both; otherwise it returns Overflow and changes nothing.
C8_PostChangesOneThing == [][C8_Step]_vars

\* C9: a Blocked task is on no ready queue, no task has both ready_link and
\* delay_link linked, and scheduler_get_next_task never returns a Blocked task.
C9_BlockedNotReady ==
  /\ \A t \in Tasks :
       /\ state[t] = "BLOCKED" => ~OnReadyQueue(t)
       /\ ~(~list_is_empty(links, ready_link(t)) /\ ~list_is_empty(links, delay_link(t)))
  /\ (last.op = "scheduler_yield" /\ next_task \in Tasks) => state[next_task] # "BLOCKED"

\* C10: after kernel_start exactly one task is Running, it is current_task,
\* and it is on no ready queue.
C10_OneRunning ==
  (kernel_running /\ halt = "none")
    => /\ Cardinality({t \in Tasks : state[t] = "RUNNING"}) = 1
       /\ current_task \in Tasks
       /\ state[current_task] = "RUNNING"
       /\ ~OnReadyQueue(current_task)

\* C11: a delay armed in the last two ticks before the tick counter wraps is
\* woken at the right tick across the wrap: the task is not made Ready before
\* as many ticks as it asked for were taken, and it is Ready, not lost on a
\* delayed list, at the latest one tick after that.
C11_WokenAcrossWrap ==
  \A t \in UserTasks :
    (/\ halt = "none" /\ pc[t] = "task_delay_resume"
     /\ SignedDiff(now_read[t], WrapStart) >= 0 /\ SignedDiff(now_read[t], 0) < 0)
      => /\ state[t] # "BLOCKED" => ticks_armed[t] >= armed_for[t]
         /\ ticks_armed[t] > armed_for[t] => state[t] # "BLOCKED"

(***************************************************************************)
(* Message queue                                                           *)
(***************************************************************************)
\* task t is inside queue_send (dir "send") or queue_receive (dir "receive")
InQueueCall(t, dir) ==
  IF dir = "send" THEN pc[t] \in {"queue_send_yield", "queue_send_resume"}
  ELSE pc[t] \in {"queue_receive_yield", "queue_receive_resume"}

\* the tasks blocked on the queue in direction dir that no peer has released,
\* in the order in which they blocked
Blocked(dir) ==
  SelectSeq(waitq, LAMBDA x : InQueueCall(x, dir) /\ waiting_on[x] = "queue"
                               /\ state[x] = "BLOCKED")

\* C12: a successful queue_receive made while senders are blocked on the
\* queue makes Ready the sender that blocked first, and a successful
\* queue_send made while receivers are blocked makes Ready the receiver that
\* blocked first.
C12_WaitersFifo ==
  [][/\ (last'.op = "queue_receive" /\ last'.ret = "QUEUE_SUCCESS" /\ Blocked("send") # <<>>
          /\ halt' = "none")
          => (state'[Head(Blocked("send"))] = "READY"
              /\ waiting_on'[Head(Blocked("send"))] = NULL)
     /\ (last'.op = "queue_send" /\ last'.ret = "QUEUE_SUCCESS" /\ Blocked("receive") # <<>>
          /\ halt' = "none")
          => (state'[Head(Blocked("receive"))] = "READY"
              /\ waiting_on'[Head(Blocked("receive"))] = NULL)]_vars

(***************************************************************************)
(* Ring buffer                                                             *)
(***************************************************************************)
RECURSIVE Stored(_, _, _)
\* the n items a reader meets in the buffer from index i on, wrapping at the
\* capacity
Stored(self, i, n) ==
  IF n = 0 THEN <<>>
  ELSE <<self.buffer[i]>> \o Stored(self, (i + 1) % self.capacity, n - 1)

\* 2^k for some k
IsPowerOfTwo(n) == \E k \in 0 .. n : 2 ^ k = n

C13_Step ==
  /\ \A n \in 1 .. MaxRingLen :
       LET c == cb_init(n).capacity
       IN  IsPowerOfTwo(c) /\ c >= n /\ (c = 1 \/ c \div 2 < n)
  /\ cb'.size = Len(puts') - Len(gets')
  /\ cb'.size <= cb'.capacity
  /\ puts' = gets' \o Stored(cb', cb'.head, cb'.size)
  /\ last'.op = "cb_put" =>
       /\ (last'.ret = "CB_ERROR_BUFFER_FULL") <=> (cb.size = cb.capacity)
       /\ last'.ret = "CB_ERROR_BUFFER_FULL" => (cb' = cb /\ puts' = puts)
       /\ last'.ret # "CB_ERROR_BUFFER_FULL" => (last'.ret = "CB_SUCCESS" /\ Len(puts') = Len(puts) + 1)
       /\ gets' = gets
  /\ last'.op = "cb_get" =>
       /\ (last'.ret = "CB_ERROR_BUFFER_EMPTY") <=> (cb.size = 0)
       /\ last'.ret = "CB_ERROR_BUFFER_EMPTY" => (cb' = cb /\ gets' = gets)
       /\ last'.ret # "CB_ERROR_BUFFER_EMPTY" => (last'.ret = "CB_SUCCESS" /\ Len(gets') = Len(gets) + 1)
       /\ puts' = puts

\* C13: the ring buffer is a bounded FIFO whose bound is the requested
\* capacity rounded up to a power of two: after every cb_put and cb_get the
\* items accepted so far are the items returned so far followed by the items
\* stored from head on, size is puts minus gets, cb_put fails exactly when
\* size == capacity, cb_get fails exactly when size == 0, and a failing call
\* changes nothing.
C13_BoundedFifo == [][C13_Step]_vars

\* a buffer whose capacity was rounded up is full again after its indices
\* wrapped around
C13_Witness ==
  /\ last.op = "cb_put" /\ last.ret = "CB_SUCCESS"
  /\ cb.size = cb.capacity /\ cb.capacity > MaxRingLen
  /\ cb.head > 0 /\ cb.tail = cb.head /\ Len(gets) > 0

(***************************************************************************)
(* Unblocking events                                                       *)
(***************************************************************************)
\* the step released the first task of wait-list L and nobody else
C14_Released(L) ==
  LET before == WaitersOf(links, L)
      first == links[L].next
      h == container_of(first)
  IN  /\ IsLink(first)
      /\ WaitersOf(links', L) = before \ {h}
      /\ list_is_empty(links', delay_link(h))
      /\ waiting_on'[h] = NULL
      /\ wake_reason'[h] = "DATA_AVAILABLE"
      /\ state'[h] = "READY"
      /\ \A o \in before \ {h} : state'[o] = state[o] /\ waiting_on'[o] = waiting_on[o]

\* the operation 'name' returned 'ok' in this step while L held a waiter
C14_Event(name, ok, L) ==
  /\ last'.op = name /\ last'.ret = ok
  /\ ~list_is_empty(links, L)
  /\ halt' = "none"

\* C14: a successful sem_post, mutex_unlock, queue_send or queue_receive made
\* while the wait-list of its peers is not empty removes exactly the head of
\* that wait-list, leaves it on no delayed list, clears its waiting_on, sets
\* its wake_reason to DATA_AVAILABLE and makes it Ready; the other waiters
\* stay as they were.
C14_ReleasesHeadOnly ==
  [][/\ C14_Event("sem_post", "SEM_OK", SemHead) => C14_Released(SemHead)
     /\ C14_Event("mutex_unlock", "MUTEX_OK", MutexHead) => C14_Released(MutexHead)
     /\ C14_Event("queue_send", "QUEUE_SUCCESS", RecvHead) => C14_Released(RecvHead)
     /\ C14_Event("queue_receive", "QUEUE_SUCCESS", SendHead) => C14_Released(SendHead)]_vars

(***************************************************************************)
(* Deletion of sync objects                                                *)
(***************************************************************************)
\* every task that a traversal of wait-list L met before the step is Ready
\* after it, woken with SIGNAL, and on no wait-list or delayed list
AllSignalled(L) ==
  \A w \in WaitersOf(links, L) :
    /\ state'[w] = "READY"
    /\ wake_reason'[w] = "SIGNAL"
    /\ waiting_on'[w] = NULL
    /\ list_is_empty(links', wait_link(w))
    /\ list_is_empty(links', delay_link(w))

\* C15: queue_delete wakes every blocked sender and receiver with SIGNAL and
\* returns the queue control block and the buffer to their pools.
C15_QueueDeleteReleases ==
  [][last'.op = "queue_delete" =>
       /\ AllSignalled(SendHead)
       /\ AllSignalled(RecvHead)
       /\ pool_used' = [qcb |-> pool_used.qcb - 1, buffer |-> pool_used.buffer - 1]]_vars

\* C16: mutex_delete of an owned mutex with waiters makes every waiter Ready
\* with SIGNAL (its mutex_lock then returns MUTEX_ERROR_NULL), leaves the
\* owner at its base priority and gives the control block back to the pool.
C16_Step ==
  /\ (last'.op = "mutex_delete" /\ owner # NoTask /\ ~list_is_empty(links, MutexHead)) =>
       /\ AllSignalled(MutexHead)
       /\ effective_priority'[owner] = base_priority[owner]
       /\ ~mutex_live'
  /\ \A t \in UserTasks :
       (/\ pc[t] = "mutex_lock_resume" /\ wake_reason[t] = "SIGNAL"
        /\ last'.op = "mutex_lock" /\ last'.task = t) =>
         last'.ret = "MUTEX_ERROR_NULL"

C16_MutexDeleteReleases == [][C16_Step]_vars

\* C17: sem_delete makes every waiter Ready with SIGNAL and off every
\* wait-list and delayed list, gives the slot back to the pool, and a woken
\* waiter's sem_wait returns SEM_ERROR_NULL.
C17_Step ==
  /\ last'.op = "sem_delete" =>
       /\ halt' = "none"
       /\ AllSignalled(SemHead)
       /\ ~sem_live'
  /\ \A t \in UserTasks :
       (/\ pc[t] = "sem_wait_resume" /\ wake_reason[t] = "SIGNAL"
        /\ last'.op = "sem_wait" /\ last'.task = t) =>
         last'.ret = "SEM_ERROR_NULL"

C17_SemDeleteReleases == [][C17_Step]_vars

(***************************************************************************)
(* Error returns that change nothing                                       *)
(***************************************************************************)
\* the mutex, its wait-list and the priorities are as before the step
MutexUntouched ==
  /\ owner' = owner
  /\ original_priority' = original_priority
  /\ WaitersOf(links', MutexHead) = WaitersOf(links, MutexHead)
  /\ links' = links
  /\ effective_priority' = effective_priority
  /\ base_priority' = base_priority

\* C18: mutex_lock by the owner returns MUTEX_ERROR_RECURSIVE, mutex_unlock by
\* a task that is not the owner returns MUTEX_ERROR_NOT_OWNER, and either call
\* leaves owner, the wait-list and every priority unchanged.
C18_Step ==
  /\ (last'.op = "mutex_lock" /\ owner = last'.task) =>
       (last'.ret = "MUTEX_ERROR_RECURSIVE" /\ MutexUntouched)
  /\ (last'.op = "mutex_unlock" /\ owner # last'.task) =>
       (last'.ret = "MUTEX_ERROR_NOT_OWNER" /\ MutexUntouched)

C18_MisuseRejected == [][C18_Step]_vars

\* the owner, boosted by a waiter on the wait-list, was refused a second lock
C18_Witness ==
  /\ last.op = "mutex_lock" /\ last.ret = "MUTEX_ERROR_RECURSIVE"
  /\ owner = last.task
  /\ ~list_is_empty(links, MutexHead)
  /\ effective_priority[owner] < base_priority[owner]

\* C19: queue_send with timeout 0 on a full queue returns QUEUE_ERROR_FULL and
\* queue_receive with timeout 0 on an empty queue returns QUEUE_ERROR_EMPTY;
\* the caller goes on running and the kernel's memory, every list included,
\* and the queue contents are as before.
C19_Step ==
  \A t \in QueueUsers :
    /\ (QueueSend(t, NO_WAIT) /\ cb.size = cb.capacity) =>
         /\ last' = Op("queue_send", t, "QUEUE_ERROR_FULL")
         /\ pc'[t] = "run"
         /\ UNCHANGED <<memvars, cb, puts, gets>>
    /\ (QueueReceive(t, NO_WAIT) /\ cb.size = 0) =>
         /\ last' = Op("queue_receive", t, "QUEUE_ERROR_EMPTY")
         /\ pc'[t] = "run"
         /\ UNCHANGED <<memvars, cb, puts, gets>>

C19_NoWaitFailsAtOnce == [][C19_Step]_vars

\* a send was refused with Full while another sender is blocked on the queue
C19_Witness ==
  /\ last.op = "queue_send" /\ last.ret = "QUEUE_ERROR_FULL"
  /\ cb.size = cb.capacity
  /\ ~list_is_empty(links, SendHead)
  /\ state[last.task] = "RUNNING"

(***************************************************************************)
(* Choice of the next task                                                 *)
(***************************************************************************)
\* the step is one call of scheduler_get_next_task and nothing else that
\* changes a ready queue: scheduler_start, scheduler_yield from a blocking
\* call, or task_yield by a task whose state is not RUNNING
OnlyPicksNext ==
  \/ last'.op \in {"kernel_start", "scheduler_yield"}
  \/ last'.op = "task_yield" /\ state[current_task] # "RUNNING"

RECURSIVE Forward(_, _, _, _)
\* the nodes a traversal from pos by next meets before it is back at h, in
\* order; the traversal stops at a node it has met before
Forward(L, h, pos, met) ==
  IF pos = h \/ pos \in met THEN <<>>
  ELSE <<pos>> \o Forward(L, h, L[pos].next, met \cup {pos})

BandOrder(L, p) == Forward(L, ReadyHead(p), L[ReadyHead(p)].next, {})

\* ready queue p is a circular doubly linked list of ready_links
Intact(L, p) ==
  LET ns == BandOrder(L, p)
      n == Len(ns)
  IN  /\ \A i \in 1 .. n : IsLink(ns[i])
      /\ L[IF n = 0 THEN ReadyHead(p) ELSE ns[n]].next = ReadyHead(p)
      /\ \A x \in {ReadyHead(p)} \cup {ns[i] : i \in 1 .. n} : L[L[x].next].prev = x

\* the task the step picked
Picked == IF last'.op = "kernel_start" THEN current_task' ELSE next_task'

\* C20: scheduler_get_next_task returns the task at the head of the
\* lowest-numbered non-empty ready queue and leaves it at the tail of that
\* queue; every lower-numbered queue is empty.
C20_Step ==
  (OnlyPicksNext /\ \E p \in Priorities : ~list_is_empty(links, ReadyHead(p))) =>
    \E p \in Priorities :
      LET first == links[ReadyHead(p)].next
      IN  /\ ~list_is_empty(links, ReadyHead(p))
          /\ \A q \in Priorities : q < p => list_is_empty(links, ReadyHead(q))
          /\ halt' = "none"
          /\ IsLink(first) /\ first = ready_link(Picked)
          /\ links'[ReadyHead(p)].prev = first
          /\ Intact(links, p) =>
               /\ Intact(links', p)
               /\ BandOrder(links', p) = Append(Tail(BandOrder(links, p)), first)
          /\ \A q \in Priorities \ {p} : links'[ReadyHead(q)] = links[ReadyHead(q)]

C20_PicksHighestBandHead == [][C20_Step]_vars

\* the scheduler_yield of a blocking call picked the head of a band of two
\* tasks, which is now behind the other one, while the idle task's band was
\* waiting as well
C20_Witness ==
  /\ last.op = "scheduler_yield"
  /\ next_task \in UserTasks
  /\ \E p \in Priorities :
       /\ p < MAX_PRIORITY
       /\ links[ReadyHead(p)].prev = ready_link(next_task)
       /\ links[ReadyHead(p)].next # ready_link(next_task)
       /\ Intact(links, p)
       /\ ~list_is_empty(links, ReadyHead(MAX_PRIORITY))

(***************************************************************************)
(* Round-robin within a band                                               *)
(***************************************************************************)
\* C21: two tasks of equal priority that never block, with no task ready in a
\* lower-numbered band, take turns: a yield or a tick taken while one of them
\* has the CPU gives it to the other.
C21_Step ==
  (/\ last'.op \in {"task_yield", "tick"}
   /\ current_task \in UserTasks
   /\ \A t \in UserTasks : state[t] \in {"READY", "RUNNING"}
   /\ \A t, u \in UserTasks : effective_priority[t] = effective_priority[u]
   /\ \A q \in Priorities :
        q < effective_priority[current_task] => list_is_empty(links, ReadyHead(q)))
  => current_task' \in UserTasks \ {current_task}

C21_EqualTasksAlternate == [][C21_Step]_vars

(***************************************************************************)
(* The pools                                                               *)
(***************************************************************************)
\* the slots of pool_type that are handed out and not freed since
Live(pool_type) == {sl \in handed : sl[1] = pool_type}

\* the length of the array behind pool_type
Capacity(pool_type) == memory_pools_init(MAX_TASKS)[pool_type].free_count

\* C24: for every pool and after any sequence of pool_alloc and pool_free
\* calls, failing ones included, used + free = total, where free is free_count
\* and also the number of set bits of the free bitmap; total is the length of
\* the pool's array and used the number of slots handed out and not freed
C24_PoolAccounting ==
  \A pool_type \in PoolTypes :
    LET stats == pool_get_stats(pools, pool_type)
    IN  /\ stats.used_objects + stats.free_objects = stats.total_objects
        /\ stats.total_objects = Capacity(pool_type)
        /\ stats.free_objects = pools[pool_type].free_count
        /\ stats.free_objects = Cardinality(pools[pool_type].free_bitmap)
        /\ stats.used_objects = Cardinality(Live(pool_type))
        /\ pools[pool_type].free_bitmap \subseteq 0 .. (stats.total_objects - 1)

\* three calls were made, the last one a pool_free that failed, and some pool
\* has both used and free slots
C24_Witness ==
  /\ calls_left = 0
  /\ last.op = "pool_free" /\ last.ret = FALSE
  /\ \E pool_type \in PoolTypes :
       /\ pool_get_stats(pools, pool_type).used_objects > 0
       /\ pool_get_stats(pools, pool_type).free_objects > 1

\* ptr is the base address of a slot of pool_type that is allocated in P
AllocatedBase(P, pool_type, ptr) ==
  /\ pool_type \in PoolTypes
  /\ ptr # NullPtr
  /\ ptr.pool = pool_type
  /\ ptr.off >= 0 /\ ptr.off < P[pool_type].pool_size
  /\ ptr.off % P[pool_type].object_size = 0
  /\ (ptr.off \div P[pool_type].object_size) \notin P[pool_type].free_bitmap

\* C25: pool_free returns true only for the base address of a currently
\* allocated slot of the named pool; for a double free, a null pointer, a
\* pointer outside the pool, a pointer inside the pool that is not aligned to
\* a slot boundary, or an invalid pool id it returns false and leaves the
\* bitmap and free_count unchanged.
C25_Step ==
  last'.op = "pool_free" /\ calls_left' < calls_left
    => LET pool_type == last'.arg[1]
           ptr == last'.arg[2]
       IN  ~AllocatedBase(pools, pool_type, ptr) => last'.ret = FALSE /\ pools' = pools

C25_FreeRejectsBadPointers == [][C25_Step]_vars

\* the same for every pointer but the misaligned ones, and the base address
\* of an allocated slot is accepted
C25_Aligned ==
  [][last'.op = "pool_free" /\ calls_left' < calls_left
       => LET pool_type == last'.arg[1]
              ptr == last'.arg[2]
          IN  /\ AllocatedBase(pools, pool_type, ptr) => last'.ret = TRUE
              /\ (/\ ~AllocatedBase(pools, pool_type, ptr)
                  /\ (ptr = NullPtr \/ pool_type = POOL_COUNT
                        \/ ptr.off % pools[pool_type].object_size = 0))
                   => last'.ret = FALSE /\ pools' = pools]_vars

\* the indexes of the slots of pool_type that no caller holds
Unused(pool_type) ==
  {i \in 0 .. (Capacity(pool_type) - 1) : <<pool_type, i>> \notin handed}

\* C26: pool_alloc returns nil only when the pool has no free slot; otherwise
\* it returns the lowest-indexed free slot, zero-filled, and no slot is handed
\* out again without a successful pool_free of it in between, so two live
\* allocations never alias.
C26_Step ==
  last'.op = "pool_alloc" /\ calls_left' < calls_left /\ last'.arg \in PoolTypes
    => LET pool_type == last'.arg
           ptr == last'.ret
       IN  IF Unused(pool_type) = {}
           THEN ptr = NullPtr /\ pools' = pools /\ handed' = handed
           ELSE /\ ptr # NullPtr
                /\ ptr.pool = pool_type
                /\ ptr.off % pools[pool_type].object_size = 0
                /\ LET index == ptr.off \div pools[pool_type].object_size
                   IN  /\ index \in Unused(pool_type)
                       /\ \A i \in Unused(pool_type) : index <= i
                       /\ <<pool_type, index>> \notin dirty'
                       /\ handed' = handed \cup {<<pool_type, index>>}
                       /\ index \notin pools'[pool_type].free_bitmap

C26_AllocLowestFreeZeroed == [][C26_Step]_vars

\* pool_alloc returned a slot that was freed before, while a slot above it is
\* still held and another one above it is free
C26_Witness ==
  /\ last.op = "pool_alloc"
  /\ last.arg \in PoolTypes
  /\ last.ret # NullPtr
  /\ LET index == last.ret.off \div pools[last.arg].object_size
     IN  /\ \E i \in pools[last.arg].free_bitmap : i > index
         /\ \E sl \in Live(last.arg) : sl[2] > index

\* pool_alloc returned nil: every slot of the pool is held
C26_WitnessExhausted ==
  /\ last.op = "pool_alloc"
  /\ last.arg \in PoolTypes
  /\ last.ret = NullPtr
  /\ Unused(last.arg) = {}

StackClasses == {POOL_STACK_SMALL, POOL_STACK_DEFAULT, POOL_STACK_LARGE}

BufferClasses == {POOL_BUFFER_SMALL, POOL_BUFFER_MEDIUM, POOL_BUFFER_LARGE}

\* the size of a slot of pool_type
SlotSize(pool_type) == memory_pools_init(MAX_TASKS)[pool_type].object_size

\* the classes whose slots hold requested_size bytes
Fitting(classes, requested_size) == {c \in classes : SlotSize(c) >= requested_size}

\* a request of requested_size bytes to one of 'classes' returned ptr
ServedBySmallestFit(classes, requested_size, ptr) ==
  LET fit == Fitting(classes, requested_size)
  IN  IF fit = {} THEN ptr = NullPtr /\ pools' = pools /\ handed' = handed
      ELSE LET c == CHOOSE c \in fit : \A d \in fit : SlotSize(c) <= SlotSize(d)
           IN  IF Unused(c) = {} THEN ptr = NullPtr /\ pools' = pools /\ handed' = handed
               ELSE /\ ptr # NullPtr
                    /\ ptr.pool = c
                    /\ handed' = handed \cup {SlotOf(pools, ptr)}
                    /\ SlotOf(pools, ptr)[2] \in Unused(c)
                    /\ \A d \in PoolTypes \ {c} : pools'[d] = pools[d]

\* C27: a stack or queue-buffer request is served from the smallest size class
\* whose slot size is at least the requested size, and only from that class:
\* it fails when that class is exhausted even if a larger class has free
\* slots, and a request larger than the largest class always fails.
C27_Step ==
  /\ last'.op = "task_pool_alloc_stack" /\ calls_left' < calls_left
       => ServedBySmallestFit(StackClasses, last'.arg, last'.ret)
  /\ last'.op = "queue_pool_alloc_buffer" /\ calls_left' < calls_left
       => ServedBySmallestFit(BufferClasses, last'.arg, last'.ret)

C27_SmallestFittingClassOnly == [][C27_Step]_vars

\* a request that fits the small stacks failed while default and large
\* stacks were free
C27_Witness ==
  /\ last.op = "task_pool_alloc_stack"
  /\ last.arg <= SMALL_STACK_SIZE
  /\ last.ret = NullPtr
  /\ pools[POOL_STACK_DEFAULT].free_count > 0
  /\ pools[POOL_STACK_LARGE].free_count > 0

\* the same for the buffers, and a request of exactly the medium size was
\* served by the medium class
C27_WitnessBuffer ==
  \/ /\ last.op = "queue_pool_alloc_buffer"
     /\ last.arg <= SMALL_BUFFER_SIZE
     /\ last.ret = NullPtr
     /\ pools[POOL_BUFFER_MEDIUM].free_count > 0
  \/ /\ last.op = "queue_pool_alloc_buffer"
     /\ last.arg = DEFAULT_BUFFER_SIZE
     /\ last.ret # NullPtr
     /\ last.ret.pool = POOL_BUFFER_MEDIUM

(***************************************************************************)
(* Task creation and deletion                                              *)
(***************************************************************************)
\* C22: after kernel_init, at every call of scheduler_get_next_task at least
\* one ready queue is non-empty, because the idle task at MAX_PRIORITY is never
\* blocked and task_delete on it is a no-op; the call always returns a task
\* and never enters its no-ready-task spin loop.
C22_AlwaysAReadyTask ==
  /\ halt # "no ready task"
  /\ halt = "none" =>
       /\ \E p \in Priorities : ~list_is_empty(links, ReadyHead(p))
       /\ ~list_is_empty(links, ReadyHead(MAX_PRIORITY))
       /\ state[IdleTask] \in {"READY", "RUNNING"}
       /\ <<POOL_TCB, IdleTask>> \in handed
       /\ next_task # BogusTask
       /\ kernel_running => current_task \in Tasks

\* a task called task_delete on the idle task, and later the idle task was
\* the only one left and got the CPU
C22_Witness ==
  /\ halt = "none"
  /\ current_task = IdleTask
  /\ \A t \in AppTasks : state[t] = "DELETED" \/ <<POOL_TCB, t>> \notin handed
  /\ \A p \in Priorities : p < MAX_PRIORITY => list_is_empty(links, ReadyHead(p))

\* task_delete was called with the idle task's handle
C22_WitnessDeleteIdle ==
  last.op = "task_delete" /\ last.arg = IdleTask /\ halt = "none"

\* task t deleted itself: task_delete set its state and left its TCB and
\* stack allocated
SelfDeleted(t) == state[t] = "DELETED" /\ <<POOL_TCB, t>> \in handed

\* t's TCB slot and stack slot are back in their pools
Reclaimed(t) ==
  /\ t \in pools[POOL_TCB].free_bitmap
  /\ stack_base[t] = NullPtr

\* the first half of C23: a task that deleted itself is Deleted, on no ready
\* or delayed list, and does not run again
C23_GoneFromScheduler ==
  \A t \in AppTasks :
    SelfDeleted(t) /\ halt = "none"
      => /\ current_task # t
         /\ ~OnReadyQueue(t)
         /\ list_is_empty(links, ready_link(t))
         /\ list_is_empty(links, delay_link(t))
         /\ delay_link(t) \notin Walk(links, delayed_cur, links[delayed_cur].next, {})
         /\ delay_link(t) \notin Walk(links, delayed_ovf, links[delayed_ovf].next, {})

\* C23: after a task deletes itself, its state is Deleted, it is on no ready
\* or delayed list and is never scheduled again, and its TCB slot and stack
\* slot are eventually returned to their pools by the idle task.
C23_SelfDeleteReclaimed ==
  \A t \in AppTasks :
    [](SelfDeleted(t) /\ Runs(IdleTask) => <>(Reclaimed(t) \/ halt # "none"))

\* C28: if task_create cannot obtain a TCB slot or a stack slot it returns nil
\* and rolls back: every pool's used count is the same as before the call (a
\* TCB already taken is returned to the TCB pool) and no ready queue is
\* changed.
C28_Step ==
  last'.op = "task_create" /\ calls_left' < calls_left /\ last'.ret = "NULL"
    => /\ \A pool_type \in PoolTypes :
            /\ pool_get_stats(pools', pool_type).used_objects
                 = pool_get_stats(pools, pool_type).used_objects
            /\ pools'[pool_type].free_bitmap = pools[pool_type].free_bitmap
       /\ handed' = handed
       /\ stack_base' = stack_base
       /\ links' = links
       /\ state' = state
       /\ current_task' = current_task

C28_FailedCreateRollsBack == [][C28_Step]_vars

\* the first call of the run was a task_create that returned nil although a
\* TCB slot is free, and the TCB pool's peak is one above its use: the TCB was
\* taken and given back when no stack could be had
C28_Witness ==
  /\ last.op = "task_create" /\ last.ret = "NULL"
  /\ calls_left = TaskCalls - 1
  /\ pools[POOL_TCB].free_count > 0
  /\ pools[POOL_TCB].peak_usage = pool_get_stats(pools, POOL_TCB).used_objects + 1

\* task_create returned nil with a valid priority because every TCB is taken
C28_WitnessNoTcb ==
  /\ last.op = "task_create" /\ last.ret = "NULL"
  /\ pools[POOL_TCB].free_count = 0

(***************************************************************************)
(* The delayed lists at the wrap of the tick counter                       *)
(***************************************************************************)
\* the list at head h is a circular doubly linked list of TCB links
WellFormed(L, h) ==
  LET ns == Forward(L, h, L[h].next, {})
      n == Len(ns)
  IN  /\ \A i \in 1 .. n : IsLink(ns[i])
      /\ L[IF n = 0 THEN h ELSE ns[n]].next = h
      /\ \A x \in {h} \cup {ns[i] : i \in 1 .. n} : L[L[x].next].prev = x

\* the tasks a traversal of the delayed list h meets
DelayedOn(L, h) == {container_of(n) : n \in {x \in Walk(L, h, L[h].next, {}) : IsLink(x)}}

\* C29: scheduler_tick swaps the delayed current and overflow lists exactly on
\* the tick at which tick_now wraps to 0 and on no other tick, in particular
\* not on the first tick after boot; after the swap each list is a well-formed
\* circular list holding exactly the tasks the other list held before, and
\* entries whose wake_tick is 0 are expired in that same tick.  Tasks leave
\* the current list when they expire, so it may hold fewer than before.
C29_Step ==
  (/\ last'.op = "tick" /\ ticks_left' < ticks_left
   /\ WellFormed(links, delayed_cur) /\ WellFormed(links, delayed_ovf))
    => /\ halt' = "none"
       /\ WellFormed(links', delayed_cur) /\ WellFormed(links', delayed_ovf)
       /\ IF tick_now' = 0
          THEN /\ DelayedOn(links', delayed_cur) \subseteq DelayedOn(links, delayed_ovf)
               /\ DelayedOn(links', delayed_ovf)
                    = {t \in DelayedOn(links, delayed_cur) :
                         ~list_is_empty(links', delay_link(t))}
               /\ \A t \in DelayedOn(links, delayed_ovf) :
                    wake_tick[t] = 0 => t \notin DelayedOn(links', delayed_cur)
          ELSE /\ DelayedOn(links', delayed_ovf) = DelayedOn(links, delayed_ovf)
               /\ DelayedOn(links', delayed_cur) \subseteq DelayedOn(links, delayed_cur)

C29_SwapExactlyAtWrap == [][C29_Step]_vars

\* the part of C29 that the code keeps: the tick at which tick_now becomes 0
\* leaves both lists as they are but for the tasks that expire
C29_NoSwapAtWrapTick ==
  [][(/\ last'.op = "tick" /\ ticks_left' < ticks_left /\ tick_now' = 0
      /\ WellFormed(links, delayed_cur) /\ WellFormed(links, delayed_ovf))
       => /\ DelayedOn(links', delayed_ovf) = DelayedOn(links, delayed_ovf)
          /\ DelayedOn(links', delayed_cur) \subseteq DelayedOn(links, delayed_cur)]_vars

(***************************************************************************)
(* A wait with a timeout: release against expiry                           *)
(***************************************************************************)
\* task t's ready_link is met by a traversal of some ready queue of L
ReadyIn(L, t) ==
  \E p \in Priorities : ready_link(t) \in Walk(L, ReadyHead(p), L[ReadyHead(p)].next, {})

\* t stands in a sem_wait that pushed its wait_link and armed a timeout, and
\* neither sem_post nor the tick has woken it yet
ArmedWait(t) == InSemWait(t) /\ armed_for[t] > 0 /\ waiting_on[t] = "sem"

\* t stands in such a sem_wait and one of the two events has woken it
WokenWait(t) ==
  /\ InSemWait(t) /\ armed_for[t] > 0 /\ waiting_on[t] = NULL
  /\ wake_reason[t] \in {"DATA_AVAILABLE", "TIMEOUT"}

C30_Step ==
  \A t \in UserTasks :
    /\ (ArmedWait(t) /\ last'.op \in {"sem_post", "tick"} /\ waiting_on'[t] = NULL)
         => /\ halt' = "none"
            /\ state'[t] = "READY" /\ ReadyIn(links', t)
            /\ t \notin WaitersOf(links', SemHead)
            /\ list_is_empty(links', wait_link(t))
            /\ list_is_empty(links', delay_link(t))
            /\ wake_reason'[t] = IF last'.op = "sem_post" THEN "DATA_AVAILABLE" ELSE "TIMEOUT"
    /\ (ArmedWait(t) /\ state[t] = "BLOCKED" /\ state'[t] # "BLOCKED")
         => (last'.op \in {"sem_post", "tick", "sem_delete"} /\ waiting_on'[t] = NULL)
    /\ (WokenWait(t) /\ last'.op \in {"sem_post", "tick"})
         => /\ wake_reason'[t] = wake_reason[t]
            /\ waiting_on'[t] = NULL

\* C30: a sem_wait armed with a timeout is ended by exactly one of sem_post
\* and the expiry of its timeout, once: the event makes the task Ready, takes
\* it off the wait-list and off the delayed list, clears waiting_on and sets
\* wake_reason to DATA_AVAILABLE for a release and TIMEOUT for an expiry;
\* nothing else makes the blocked task runnable, and the other event, coming
\* later, no longer touches it.
C30_OneWakeUp == [][C30_Step]_vars

(***************************************************************************)
(* Preemption by the tick                                                  *)
(***************************************************************************)
\* the tick interrupt made task t Ready in this step
WokenByTick(t) ==
  /\ last'.op = "tick" /\ ticks_left' < ticks_left
  /\ state[t] = "BLOCKED" /\ state'[t] = "READY"

\* no Ready task has a numerically lower effective priority than task t
HighestReady(S, E, t) == \A u \in Tasks : S[u] = "READY" => E[t] <= E[u]

C31_Step ==
  \A t \in Tasks :
    (/\ WokenByTick(t) /\ current_task \in Tasks
     /\ effective_priority'[t] < effective_priority'[current_task])
      => /\ halt' = "none"
         /\ current_task' # current_task
         /\ next_task' = current_task'
         /\ current_task' \in Tasks
         /\ state'[current_task'] = "READY"
         /\ HighestReady(state', effective_priority', current_task')

\* C31: a tick that makes Ready a task of numerically lower effective priority
\* than current_task switches context in that same tick, and the task switched
\* to is a Ready task that no other Ready task outranks.
C31_TickPreempts == [][C31_Step]_vars

\* a tick has woken the delayed task of priority 1 and it took the CPU from a
\* task of priority 3
C31_Witness ==
  /\ halt = "none" /\ last.op = "tick"
  /\ \E t \in UserTasks :
       /\ pc[t] = "task_delay_resume" /\ current_task = t /\ state[t] = "READY"
       /\ effective_priority[t] = 1
       /\ \E u \in UserTasks : u # t /\ effective_priority[u] = 3 /\ pc[u] = "run"

\* the part of C31 that the code keeps: a tick that wakes a task of numerically
\* lower priority and returns hands the CPU to a highest-priority Ready task
C31_PreemptsWhenTickReturns ==
  [][\A t \in Tasks :
       (/\ WokenByTick(t) /\ current_task \in Tasks /\ halt' = "none"
        /\ effective_priority'[t] < effective_priority'[current_task])
         => /\ current_task' # current_task
            /\ next_task' = current_task'
            /\ current_task' \in Tasks
            /\ state'[current_task'] = "READY"
            /\ HighestReady(state', effective_priority', current_task')]_vars

(***************************************************************************)
(* task_yield and task_delay statement by statement, under the tick        *)
(***************************************************************************)
\* one statement of task-level kernel code: what it does and the nodes it names
Stmt(op, h, n, k) == [op |-> op, h |-> h, n |-> n, k |-> k]

\* the statements of list_remove(n)
list_remove_stmts(n) ==
  <<Stmt("rem_next_prev", n, n, 0), Stmt("rem_prev_next", n, n, 0), Stmt("rem_poison", n, n, 0)>>

\* the statements of list_insert_tail(h, n)
list_insert_tail_stmts(h, n) ==
  <<Stmt("ins_n_prev", h, n, 0), Stmt("ins_n_next", h, n, 0),
    Stmt("ins_tail_next", h, n, 0), Stmt("ins_h_prev", h, n, 0)>>

\* scheduler_yield: scheduler_get_next_task, then the switch
scheduler_yield_stmts == <<Stmt("get_next_task", NullNode, NullNode, 0)>>

task_yield_stmts == <<Stmt("yield_test", NullNode, NullNode, 0)>> \o scheduler_yield_stmts

scheduler_delay_current_task_stmts(ticks) ==
  <<Stmt("delay_unlink_test", NullNode, NullNode, 0),
    Stmt("set_blocked", NullNode, NullNode, 0),
    Stmt("critical_begin", NullNode, NullNode, 0),
    Stmt("delay_arm", NullNode, NullNode, ticks),
    Stmt("critical_end", NullNode, NullNode, 0)>> \o scheduler_yield_stmts

\* the statements first to last of a list operation but the first one: a list
\* whose operation stands before one of them is half updated
MidList == {"rem_prev_next", "rem_poison", "ins_n_next", "ins_tail_next", "ins_h_prev"}

\* scheduler_delay_current_task between KERNEL_CRITICAL_BEGIN and KERNEL_CRITICAL_END
delay_arm(m, ticks, gar) ==
  LET t == m.current_task
      now == m.tick_now
      wake == (now + ticks) % TickMod
      m1 == [m EXCEPT !.wake_tick[t] = wake]
      L == IF time_lt(wake, now) THEN delayed_ovf ELSE delayed_cur
  IN  delayed_insert_sorted(m1, L, t, gar)

\* one pointer statement of list_remove or list_insert_tail
ExecList(L, s) ==
  CASE s.op = "rem_next_prev" -> [L EXCEPT ![L[s.n].next].prev = L[s.n].prev]
    [] s.op = "rem_prev_next" -> [L EXCEPT ![L[s.n].prev].next = L[s.n].next]
    [] s.op = "rem_poison" -> [L EXCEPT ![s.n] = [next |-> s.n, prev |-> s.n]]
    [] s.op = "ins_n_prev" -> [L EXCEPT ![s.n].prev = L[s.h].prev]
    [] s.op = "ins_n_next" -> [L EXCEPT ![s.n].next = s.h]
    [] s.op = "ins_tail_next" -> [L EXCEPT ![L[s.h].prev].next = s.n]
    [] s.op = "ins_h_prev" -> [L EXCEPT ![s.h].prev = s.n]

ListStmts == {"rem_next_prev"} \cup MidList \cup {"ins_n_prev"}

\* task t executes statement s: the memory and PRIMASK afterwards, and the
\* statements of the function it enters
Exec(m, mask, t, s, gar) ==
  CASE s.op \in ListStmts ->
         [m |-> [m EXCEPT !.links = ExecList(@, s)], mask |-> mask, more |-> <<>>]
    [] s.op = "yield_test" ->
         IF m.state[t] = "RUNNING"
         THEN [m |-> [m EXCEPT !.state[t] = "READY"], mask |-> mask,
               more |-> <<Stmt("add_task_state", NullNode, NullNode, 0)>>]
         ELSE [m |-> m, mask |-> mask, more |-> <<>>]
    [] s.op = "add_task_state" ->
         [m |-> [m EXCEPT !.state[t] = "READY"], mask |-> mask,
          more |-> list_insert_tail_stmts(ReadyHead(m.effective_priority[t]), ready_link(t))]
    [] s.op = "delay_unlink_test" ->
         [m |-> m, mask |-> mask,
          more |-> IF ~list_is_empty(m.links, ready_link(t))
                   THEN list_remove_stmts(ready_link(t)) ELSE <<>>]
    [] s.op = "set_blocked" ->
         [m |-> [m EXCEPT !.state[t] = "BLOCKED"], mask |-> mask, more |-> <<>>]
    [] s.op = "critical_begin" -> [m |-> m, mask |-> 1, more |-> <<>>]
    [] s.op = "delay_arm" -> [m |-> delay_arm(m, s.k, gar), mask |-> mask, more |-> <<>>]
    [] s.op = "critical_end" -> [m |-> m, mask |-> 0, more |-> <<>>]
    [] s.op = "get_next_task" ->
         LET p == FirstReady(m.links, 0)
             first == m.links[ReadyHead(p)].next
         IN  IF p > MAX_PRIORITY THEN [m |-> NoReadyTask(m), mask |-> mask, more |-> <<>>]
             ELSE [m |-> m, mask |-> mask,
                   more |-> list_remove_stmts(first)
                              \o list_insert_tail_stmts(ReadyHead(p), first)
                              \o <<Stmt("switch", ReadyHead(p), first, 0)>>]
    [] s.op = "switch" ->
         LET task == IF IsLink(s.n) THEN container_of(s.n) ELSE BogusTask
             m1 == [m EXCEPT !.next_task = task]
         IN  [m |-> IF task # m1.current_task THEN PendSV_Handler(m1) ELSE m1,
              mask |-> mask, more |-> <<>>]

\* task t enters task_yield
YieldBegin(t) ==
  /\ Runs(t) /\ pc[t] = "run" /\ stmts[t] = <<>>
  /\ IF t = IdleTask THEN Continues
     ELSE calls_left > 0 /\ calls_left' = calls_left - 1 /\ UNCHANGED ticks_left
  /\ stmts' = [stmts EXCEPT ![t] = task_yield_stmts]
  /\ last' = Op("task_yield", t, "ENTER")
  /\ UNCHANGED <<memvars, ctlvars, kernel_running, sem_live, mutex_live, holds, primask>>
  /\ UNCHANGED <<cb, queue_live, pool_used, pvars, waitq, puts, gets>>

\* task t enters task_delay(ticks)
DelayBegin(t, ticks) ==
  /\ Runs(t) /\ pc[t] = "run" /\ stmts[t] = <<>>
  /\ calls_left > 0 /\ calls_left' = calls_left - 1 /\ UNCHANGED ticks_left
  /\ stmts' = [stmts EXCEPT ![t] = scheduler_delay_current_task_stmts(ticks)]
  /\ last' = Op("task_delay", t, "ENTER")
  /\ UNCHANGED <<memvars, ctlvars, kernel_running, sem_live, mutex_live, holds, primask>>
  /\ UNCHANGED <<cb, queue_live, pool_used, pvars, waitq, puts, gets>>

\* the task that has the CPU executes its next statement
StmtStep(t) ==
  /\ Runs(t) /\ stmts[t] # <<>> /\ Continues
  /\ \E gar \in Garbage :
       LET r == Exec(Mem, primask, t, Head(stmts[t]), gar)
       IN  /\ Store(r.m)
           /\ primask' = r.mask
           /\ stmts' = [stmts EXCEPT ![t] = r.more \o Tail(@)]
  /\ last' = Op(Head(stmts[t]).op, t, "STMT")
  /\ UNCHANGED <<ctlvars, kernel_running, sem_live, mutex_live, holds>>
  /\ UNCHANGED <<cb, queue_live, pool_used, pvars, waitq, puts, gets>>

InitCritical == InitWith({1}, {1}, CritCalls, CritTicks) /\ count = 0

NextCritical ==
  \/ KernelStart
  \/ Tick
  \/ \E t \in Tasks : YieldBegin(t)
  \/ \E t \in UserTasks : DelayBegin(t, 1)
  \/ \E t \in Tasks : StmtStep(t)

SpecCritical == InitCritical /\ [][NextCritical]_vars

\* a list operation of task t stands between two of its pointer statements
MidUpdate(t) == stmts[t] # <<>> /\ Head(stmts[t]).op \in MidList

C32_Step ==
  /\ (/\ last'.ret = "STMT"
      /\ <<links, state, wake_tick, wake_reason, waiting_on, tick_now>>'
           # <<links, state, wake_tick, wake_reason, waiting_on, tick_now>>)
       => primask = 1
  /\ (last'.op = "tick" /\ ticks_left' < ticks_left)
       => \A t \in Tasks : ~MidUpdate(t)

\* C32: every statement of task-level code that changes the ready queues, the
\* delayed lists, tick_now or a TCB's state, wake_reason or waiting_on runs
\* with interrupts masked, and no tick interrupt is taken while a list
\* operation of a task is half done.
C32_MutationsInCriticalSection == [][C32_Step]_vars

\* the part of C32 that the code keeps: the statements between
\* KERNEL_CRITICAL_BEGIN and KERNEL_CRITICAL_END of scheduler_delay_current_task
\* run with interrupts masked and no tick is taken in between
C32_DelayArmIsMasked ==
  [][/\ last'.op = "delay_arm" => (primask = 1 /\ primask' = 1)
     /\ last'.op = "tick" => \A t \in Tasks : stmts[t] = <<>> \/ Head(stmts[t]).op \notin {"delay_arm", "critical_end"}]_vars

(***************************************************************************)
(* The ready queues as lists                                               *)
(***************************************************************************)
\* every ready queue of L is a well-formed circular list of ready_links, and
\* no ready_link is met on two queues (a traversal meets no node twice)
ReadyQueuesOk(L) ==
  /\ \A p \in Priorities :
       /\ Intact(L, p)
       /\ \A i \in 1 .. Len(BandOrder(L, p)) : BandOrder(L, p)[i][1] = "ready_link"
  /\ \A p, q \in Priorities :
       p # q => \A i \in 1 .. Len(BandOrder(L, p)) :
                  \A j \in 1 .. Len(BandOrder(L, q)) : BandOrder(L, p)[i] # BandOrder(L, q)[j]

\* sequence s with its first element moved behind the last one
Rotated(s) == IF s = <<>> THEN s ELSE Append(Tail(s), Head(s))

C33_Step ==
  /\ halt' = "none" => ReadyQueuesOk(links')
  /\ \A t \in Tasks :
       (/\ last'.op = "task_yield" /\ last'.task = t /\ state[t] = "RUNNING"
        /\ ReadyQueuesOk(links))
         => LET p == effective_priority[t]
                others == SelectSeq(BandOrder(links, p), LAMBDA n : n # ready_link(t))
                requeued == Append(others, ready_link(t))
            IN  /\ halt' = "none"
                /\ state'[t] = "READY"
                /\ BandOrder(links', p)
                     = IF \A q \in Priorities : q < p => list_is_empty(links, ReadyHead(q))
                       THEN Rotated(requeued) ELSE requeued

\* C33: task_yield by the Running task leaves it Ready and linked exactly once
\* on the ready queue of its band, behind the tasks that were waiting there
\* (scheduler_yield then moves the head of the first non-empty queue to its
\* tail); after every step each ready queue is a well-formed circular list of
\* ready_links, and no task is met twice or on two queues.
C33_YieldRequeuesOnce == [][C33_Step]_vars

(***************************************************************************)
(* Ready tasks and the band of their effective priority                    *)
(***************************************************************************)
\* the bands on whose ready queue a traversal meets task t's ready_link
BandsOf(L, t) ==
  {p \in Priorities : ready_link(t) \in Walk(L, ReadyHead(p), L[ReadyHead(p)].next, {})}

\* every Ready task is on the ready queue of its effective priority and on no other
ReadyOnOwnBand(L, S, E, H) ==
  \A t \in Tasks : (<<POOL_TCB, t>> \in H /\ S[t] = "READY") => BandsOf(L, t) = {E[t]}

\* the mutex owner o is boosted and could run
BoostedRunnable(o) ==
  /\ o \in Tasks /\ mutex_live' /\ owner' = o
  /\ effective_priority'[o] < base_priority'[o]
  /\ state'[o] \in {"READY", "RUNNING"}

C34_Step ==
  halt' = "none" =>
    /\ ReadyOnOwnBand(links', state', effective_priority', handed')
    /\ \A o \in Tasks :
         (BoostedRunnable(o) /\ current_task' # current_task /\ current_task' \in Tasks)
           => effective_priority'[current_task'] <= effective_priority'[o]

\* C34: after every step each Ready task is linked on the ready queue indexed
\* by its effective_priority and on no other, also right after a boost or a
\* restore, and a context switch never hands the CPU to a task that a boosted,
\* runnable mutex owner outranks.
C34_ReadyOnEffectiveBand == [][C34_Step]_vars

\* the part of C34 that the code keeps: a step that changes an effective
\* priority while the ready queues are well formed leaves every Ready task,
\* and every application task that is not Blocked, on the queue of its new
\* effective priority
C34_BoostMovesReadyLink ==
  [][(/\ halt' = "none" /\ effective_priority' # effective_priority
      /\ ReadyQueuesOk(links)
      /\ ReadyOnOwnBand(links, state, effective_priority, handed))
       => /\ ReadyOnOwnBand(links', state', effective_priority', handed')
          /\ \A t \in UserTasks :
               state'[t] # "BLOCKED" => BandsOf(links', t) = {effective_priority'[t]}]_vars

(***************************************************************************)
(* Hand-over of the mutex at unlock                                        *)
(***************************************************************************)
\* task t was released by mutex_unlock, nobody has locked the mutex since,
\* and t is about to go on in its mutex_lock
ReleasedWaiter(t) ==
  /\ mutex_live /\ pc[t] = "mutex_lock_resume"
  /\ wake_reason[t] = "DATA_AVAILABLE" /\ waiting_on[t] = NULL
  /\ owner = NoTask

C35_Step ==
  /\ C14_Event("mutex_unlock", "MUTEX_OK", MutexHead)
       => /\ owner = last'.task /\ owner' = NoTask
          /\ C14_Released(MutexHead)
  /\ \A t \in UserTasks :
       (ReleasedWaiter(t) /\ last'.op = "mutex_lock" /\ last'.task = t)
         => (last'.ret = "MUTEX_OK" /\ owner' = t)

\* C35: a mutex_unlock by the owner while tasks wait clears owner and makes the
\* head waiter, and nobody else, Ready with DATA_AVAILABLE; it does not make
\* the waiter the owner.  If the mutex is still free when that waiter goes on,
\* its mutex_lock returns MUTEX_OK and the waiter is the owner.
C35_UnlockHandsOver == [][C35_Step]_vars

\* the second half of C35 alone
C35_ReleasedWaiterAcquires ==
  [][\A t \in UserTasks :
       (ReleasedWaiter(t) /\ last'.op = "mutex_lock" /\ last'.task = t)
         => (last'.ret = "MUTEX_OK" /\ owner' = t)]_vars

\* the first half of C35 alone, which the code keeps
C35_UnlockReleasesHead ==
  [][C14_Event("mutex_unlock", "MUTEX_OK", MutexHead)
       => /\ owner = last'.task /\ owner' = NoTask
          /\ C14_Released(MutexHead)]_vars

(***************************************************************************)
(* Order of the delayed lists                                              *)
(***************************************************************************)
\* the nodes of the delayed list h of L, first to last
DelayOrder(L, h) == Forward(L, h, L[h].next, {})

\* position of node n in sequence s, 0 if it is not there
IndexOf(s, n) == IF \E i \in 1 .. Len(s) : s[i] = n
                 THEN CHOOSE i \in 1 .. Len(s) : s[i] = n ELSE 0

\* the delayed list h holds TCB links only, in non-decreasing wake_tick order
\* under the signed comparison
DelaySorted(L, W, h) ==
  LET s == DelayOrder(L, h)
  IN  \A i, j \in 1 .. Len(s) :
        i < j => /\ IsLink(s[i]) /\ IsLink(s[j])
                 /\ time_lte(W[container_of(s[i])], W[container_of(s[j])])

\* task t, armed in this step, stands behind every task of list h that was
\* armed before it for the same wake_tick
BehindEqualWakes(t, h) ==
  LET before == DelayOrder(links, h)
      after == DelayOrder(links', h)
  IN  IndexOf(after, delay_link(t)) > 0 =>
        \A u \in Tasks \ {t} :
          (IndexOf(before, delay_link(u)) > 0 /\ wake_tick[u] = wake_tick'[t])
            => /\ IndexOf(after, delay_link(u)) > 0
               /\ IndexOf(after, delay_link(u)) < IndexOf(after, delay_link(t))

C36_Step ==
  /\ (halt' = "none" /\ DelaySorted(links, wake_tick, delayed_cur)
                     /\ DelaySorted(links, wake_tick, delayed_ovf))
       => /\ DelaySorted(links', wake_tick', delayed_cur)
          /\ DelaySorted(links', wake_tick', delayed_ovf)
  /\ (halt' = "none" /\ last'.op = "task_delay" /\ last'.ret = "BLOCK")
       => /\ BehindEqualWakes(last'.task, delayed_cur)
          /\ BehindEqualWakes(last'.task, delayed_ovf)

\* C36: each delayed list stays sorted in non-decreasing wake_tick order under
\* the signed comparison, and a task that arms a delay is linked behind the
\* tasks already waiting for the same wake_tick, so that tasks with equal
\* wake_tick expire in the order in which they were armed.
C36_DelayedSortedFifo == [][C36_Step]_vars

\* the first half of C36 while the two lists are circular lists of TCB links,
\* that is before the first swap
C36_SortedWhileWellFormed ==
  [][(/\ halt' = "none"
      /\ WellFormed(links, delayed_cur) /\ WellFormed(links, delayed_ovf)
      /\ WellFormed(links', delayed_cur) /\ WellFormed(links', delayed_ovf)
      /\ DelaySorted(links, wake_tick, delayed_cur)
      /\ DelaySorted(links, wake_tick, delayed_ovf))
       => /\ DelaySorted(links', wake_tick', delayed_cur)
          /\ DelaySorted(links', wake_tick', delayed_ovf)]_vars

\* two tasks wait on one delayed list for the same wake_tick
C36_EqualWakes ==
  \E h \in {delayed_cur, delayed_ovf} : \E t, u \in UserTasks :
    /\ t # u /\ wake_tick[t] = wake_tick[u] /\ WellFormed(links, h)
    /\ {t, u} \subseteq DelayedOn(links, h)

(***************************************************************************)
(* Which delayed list a delay is armed on                                  *)
(***************************************************************************)
\* task t armed a delay in this step and both delayed lists are intact
ArmedDelay(t) ==
  /\ last'.op = "task_delay" /\ last'.ret = "BLOCK" /\ last'.task = t
  /\ halt' = "none"
  /\ WellFormed(links', delayed_cur) /\ WellFormed(links', delayed_ovf)

\* task t is linked on list h and not on list g
OnlyOn(L, t, h, g) == t \in DelayedOn(L, h) /\ t \notin DelayedOn(L, g)

\* the wake tick of t lies beyond the wrap of the counter: the sum wrapped
BeyondWrap(t) == wake_tick'[t] < tick_now

C37_Step ==
  \A t \in UserTasks :
    ArmedDelay(t) =>
      IF BeyondWrap(t) THEN OnlyOn(links', t, delayed_ovf, delayed_cur)
                       ELSE OnlyOn(links', t, delayed_cur, delayed_ovf)

\* C37: a delay whose wake tick lies beyond the wrap of the tick counter is
\* armed on the delayed overflow list, one whose wake tick is reached before
\* the wrap is armed on the delayed current list.
C37_OverflowListBeyondWrap == [][C37_Step]_vars

\* what the code does: a delay shorter than half the range of the counter is
\* armed on the delayed current list, beyond the wrap or not
C37_ShortDelayOnCurrent ==
  [][\A t \in UserTasks :
       ArmedDelay(t) => OnlyOn(links', t, delayed_cur, delayed_ovf)]_vars

\* a delay was armed whose wake tick lies beyond the wrap
C37_ArmedBeyondWrap ==
  \E t \in UserTasks :
    /\ last.op = "task_delay" /\ last.ret = "BLOCK" /\ last.task = t
    /\ wake_tick[t] < tick_now /\ t \in DelayedOn(links, delayed_cur)

(***************************************************************************)
(* task_delete of a task that waits on a semaphore                         *)
(***************************************************************************)
\* two application tasks of priority 1 that wait on and post a semaphore and
\* delete each other or themselves
InitDelete == InitWith({1}, {1}, DeleteCalls, DeleteTicks)

NextDelete ==
  \/ KernelStart
  \/ Tick
  \/ IdleYield
  \/ \E t \in UserTasks : \E to \in {WAIT_FOREVER, MaxTimeout} : SemWait(t, to)
  \/ \E t \in UserTasks : SemWaitYield(t)
  \/ \E t \in UserTasks : SemWaitResume(t)
  \/ \E t \in UserTasks : SemPost(t)
  \/ \E t \in UserTasks : \E task \in UserTasks : TaskDelete(t, task)

SpecDelete == InitDelete /\ [][NextDelete]_vars

WaitHeads == {SemHead, MutexHead, SendHead, RecvHead}

\* task t is Blocked with its wait_link on a wait-list
BlockedOnObject(L, S, t) ==
  /\ S[t] = "BLOCKED"
  /\ \E h \in WaitHeads : t \in WaitersOf(L, h)

\* this step is task_delete(task) of a task Blocked on an object
DeletesWaiter(task) ==
  /\ last'.op = "task_delete" /\ last'.arg = task
  /\ <<POOL_TCB, task>> \in handed
  /\ BlockedOnObject(links, state, task)

C38_Step ==
  \A task \in UserTasks :
    DeletesWaiter(task) =>
      \/ \A h \in WaitHeads : task \notin WaitersOf(links', h)
      \/ /\ <<POOL_TCB, task>> \in handed'
         /\ state'[task] = "BLOCKED"
         /\ stack_base'[task] = stack_base[task]

\* C38: task_delete of a task that is Blocked on a queue, semaphore or mutex
\* never leaves the freed TCB on the object's wait-list: the task is unlinked
\* from the wait-list before its slots are freed, or the delete is refused.
C38_DeleteUnlinksWaiter == [][C38_Step]_vars

\* a freed TCB is on the wait-list of the semaphore
C38_FreedWaiter ==
  \E task \in UserTasks :
    /\ <<POOL_TCB, task>> \notin handed /\ state[task] = "DELETED"
    /\ task \in WaitersOf(links, SemHead)

(***************************************************************************)
(* The bytes of a queue's ring inside its buffer slot                      *)
(***************************************************************************)
\* a queue that is not created yet
NoQueue ==
  [capacity |-> 0, mask |-> 0, size |-> 0, head |-> 0, tail |-> 0,
   buffer |-> [i \in {} |-> NoItem], has_buffer |-> FALSE,
   element_size |-> 0, slot |-> NullPtr]

\* the product of two size_t; with the lengths and item sizes passed here it
\* stays far below the range of size_t
calculate_buffer_size(queue_length, item_size) == queue_length * item_size

\* queue_create with its two allocations: the pools and the slot memory after
\* the call and the ring of the queue returned, NoQueue for NULL
queue_create_sized(P, D, queue_length, item_size) ==
  IF queue_length = 0 \/ item_size = 0 THEN [pools |-> P, dirty |-> D, q |-> NoQueue]
  ELSE LET a == queue_pool_alloc_qcb(P, D)
       IN  IF a.ptr = NullPtr THEN [pools |-> P, dirty |-> D, q |-> NoQueue]
           ELSE LET b == queue_pool_alloc_buffer(a.pools, a.dirty,
                                                 calculate_buffer_size(queue_length, item_size))
                IN  IF b.ptr = NullPtr
                    THEN [pools |-> pool_free(a.pools, POOL_QCB, a.ptr).pools,
                          dirty |-> a.dirty, q |-> NoQueue]
                    ELSE LET capacity == RoundUp(1, queue_length)
                         IN  [pools |-> b.pools, dirty |-> b.dirty,
                              q |-> [capacity |-> capacity, mask |-> capacity - 1,
                                     size |-> 0, head |-> 0, tail |-> 0,
                                     buffer |-> [i \in 0 .. (capacity - 1) |-> NoItem],
                                     has_buffer |-> TRUE,
                                     element_size |-> item_size, slot |-> b.ptr]]

\* item sizes passed to queue_create: a byte, a quarter and a third of the
\* small buffer, the whole small buffer, one byte more than the largest buffer
ItemSizes ==
  {1, SMALL_BUFFER_SIZE \div 4, SMALL_BUFFER_SIZE \div 3, SMALL_BUFFER_SIZE,
   LARGE_BUFFER_SIZE + 1}

QueueCreate(queue_length, item_size) ==
  /\ ~kernel_running /\ calls_left > 0 /\ ~cb.has_buffer
  /\ calls_left' = calls_left - 1
  /\ LET r == queue_create_sized(pools, dirty, queue_length, item_size)
     IN  /\ pools' = r.pools
         /\ dirty' = r.dirty
         /\ handed' = IF r.q.has_buffer
                      THEN handed \cup {SlotOf(pools, r.q.slot),
                                        <<POOL_QCB, find_free_bit(pools[POOL_QCB].free_bitmap)>>}
                      ELSE handed
         /\ cb' = r.q
         /\ last' = PoolOp("queue_create", <<queue_length, item_size>>,
                           IF r.q.has_buffer THEN "QUEUE" ELSE "NULL")
  /\ UNCHANGED <<memvars, ctlvars, kernel_running, sem_live, mutex_live, holds, queue_live,
                 pool_used, cvars, stack_base, waitq, puts, gets, ticks_left>>

\* cb_put / cb_get on the ring of the queue that queue_create returned, as
\* queue_send and queue_receive call them
CreatedPut(v) == cb.has_buffer /\ CbPut(v)

CreatedGet == cb.has_buffer /\ CbGet

\* queue_create, then items are put into and taken out of the queue's ring
InitCreate ==
  /\ InitFor(UserTasks, {1}, {1}, {NoQueue}, CreateCalls, 0, 0)
  /\ count = 0

NextCreate ==
  \/ \E queue_length \in 0 .. MaxCreateLen : \E item_size \in ItemSizes :
       QueueCreate(queue_length, item_size)
  \/ \E v \in Values : CreatedPut(v)
  \/ CreatedGet

SpecCreate == InitCreate /\ [][NextCreate]_vars

\* byte size of the buffer slot of ring self
SlotBytes(P, self) == P[self.slot.pool].object_size

\* the first byte past item i of ring self, counted from buffer_base
ItemEnd(self, i) == (i * self.element_size) + self.element_size

C39_Fits == cb.has_buffer => cb.capacity * cb.element_size <= SlotBytes(pools, cb)

C39_PutInside ==
  (cb.has_buffer /\ last'.op = "cb_put" /\ last'.ret = "CB_SUCCESS")
    => ItemEnd(cb, cb.tail) <= SlotBytes(pools, cb)

C39_GetInside ==
  (cb.has_buffer /\ last'.op = "cb_get" /\ last'.ret = "CB_SUCCESS")
    => ItemEnd(cb, cb.head) <= SlotBytes(pools, cb)

\* C39: for every queue that queue_create returns, capacity * item_size
\* (capacity being queue_length rounded up to a power of two) is at most the
\* byte size of the buffer slot allocated for it, so that no put or get
\* addresses memory outside the slot.
C39_RingInsideSlot == [][C39_Fits' /\ C39_PutInside /\ C39_GetInside]_vars

\* an item of the queue is stored past the end of its buffer slot
C39_ItemPastSlot ==
  /\ cb.has_buffer
  /\ \E i \in 0 .. (cb.capacity - 1) :
       cb.buffer[i] # NoItem /\ ItemEnd(cb, i) > SlotBytes(pools, cb)

\* what the code guarantees: the queue_length items asked for fit the slot
C39_RequestFits ==
  [][(last'.op = "queue_create" /\ last'.ret = "QUEUE")
       => last'.arg[1] * last'.arg[2] <= SlotBytes(pools', cb')]_vars

(***************************************************************************)
(* How long a priority-inheritance boost lasts                             *)
(***************************************************************************)
\* task t runs above its base priority
Boosted(E, B, t) == E[t] < B[t]

\* a task on the wait-list of the mutex that t owns accounts for the
\* effective priority of t
BoostingWaiter(L, E, o, t) ==
  /\ o = t
  /\ \E w \in WaitersOf(L, MutexHead) : E[w] <= E[t]

C40_Inv ==
  \A t \in UserTasks :
    Boosted(effective_priority, base_priority, t)
      => BoostingWaiter(links, effective_priority, owner, t)

\* the last waiter timed out of mutex_lock in this step
LastWaiterTimedOut ==
  /\ last'.op = "mutex_lock" /\ last'.ret = "MUTEX_ERROR_TIMEOUT"
  /\ owner' \in UserTasks
  /\ WaitersOf(links', MutexHead) = {}

C40_Step ==
  LastWaiterTimedOut => effective_priority'[owner'] = base_priority'[owner']

\* C40: a priority-inheritance boost never outlives the waiters that caused
\* it: a task whose effective_priority is numerically lower than its
\* base_priority owns the mutex and some task on the wait-list of the mutex
\* has an effective priority <= the owner's; in particular, when the only
\* boosting waiter times out of mutex_lock the owner is back at its base
\* priority.
C40_BoostNeverOutlivesWaiters == [][C40_Inv' /\ C40_Step]_vars

\* the owner is still boosted after its only waiter timed out
C40_BoostWithoutWaiter ==
  /\ last.op = "mutex_lock" /\ last.ret = "MUTEX_ERROR_TIMEOUT"
  /\ owner \in UserTasks /\ WaitersOf(links, MutexHead) = {}
  /\ Boosted(effective_priority, base_priority, owner)

\* what the code does: a boost is given to the owner of the mutex only, by a
\* mutex_lock that blocks, and it is at most the priority of the caller
C40_BoostGivenByWaiter ==
  [][\A t \in UserTasks :
       (effective_priority'[t] < effective_priority[t])
         => /\ last'.op = "mutex_lock" /\ last'.ret = "BLOCK"
            /\ owner = t
            /\ effective_priority'[t] >= effective_priority[last'.task]]_vars

\* the second half of C40 alone
C40_TimeoutRestores == [][C40_Step]_vars

\* a task of priority 3 and one of priority 1 that delay and lock the mutex
\* with a finite timeout, and never unlock it; the run is long enough for the
\* waiter's timeout to expire
InitBoost == InitWith(MutexPriorities, {1}, BoostCalls, BoostTicks) /\ count = 0

NextBoost ==
  \/ KernelStart
  \/ Tick
  \/ IdleYield
  \/ \E t \in UserTasks : \E n \in Delays : TaskDelay(t, n)
  \/ \E t \in UserTasks : TaskDelayResume(t)
  \/ \E t \in UserTasks : \E to \in Delays : MutexLock(t, to)
  \/ \E t \in UserTasks : MutexLockYield(t)
  \/ \E t \in UserTasks : MutexLockResume(t)

SpecBoost == InitBoost /\ [][NextBoost]_vars

====
